---- MODULE Spec2Model ----
(*************************************************************************)
(* Rule engine of the radiology dual-coding mapper: the LOINC mapper     *)
(* (src/src/loinc_mapper.py), the ICD-10-PCS mapper                      *)
(* (src/src/icd10pcs_mapper.py), the description parser                  *)
(* (src/src/description_parser.py) and the static code tables            *)
(* (src/src/loinc_database.py, src/src/icd10pcs_database.py).            *)
(*                                                                       *)
(* Python values are modelled as follows: a str is a TLA+ string, a list *)
(* is a sequence, a dict literal is a sequence of <<key, value>> items   *)
(* in source order (DictOf gives the dict Python builds from it), a dict *)
(* record is a TLA+ record, the scalar None is the sentinel None and an  *)
(* absent dict (Optional[Dict] = None) is NoDict.                        *)
(*************************************************************************)
EXTENDS Integers, Sequences, FiniteSets, TLC

\* Python's None in a str-or-None position.
None == "<None>"

\* Python's None in a dict-or-None position (falsy, like the empty dict).
NoDict == << >>

\* The dict a Python dict literal evaluates to: on a repeated key the
\* later item replaces the earlier one.
DictOf(items) ==
    [k \in {items[i][1] : i \in DOMAIN items} |->
        items[CHOOSE i \in DOMAIN items :
                 /\ items[i][1] = k
                 /\ \A j \in DOMAIN items : items[j][1] = k => j <= i][2]]

\* dict.get(key, default)
Get(dict, key, default) == IF key \in DOMAIN dict THEN dict[key] ELSE default

(*************************************************************************)
(* Static code tables                                                    *)
(*************************************************************************)
\* src/src/loinc_database.py: the LOINC_DATABASE dict literal, item by item.
LOINC_DATABASE_ITEMS ==
    << <<<<"Chest", "CR", None, "N">>, [code |-> "36643-5", long_name |-> "XR Chest Views", component |-> "Chest", method |-> "XR"]>>,
       <<<<"Chest", "XR", None, "N">>, [code |-> "36643-5", long_name |-> "XR Chest Views", component |-> "Chest", method |-> "XR"]>>,
       <<<<"Chest", "CT", None, "N">>, [code |-> "24627-2", long_name |-> "CT Chest W/O contrast", component |-> "Chest", method |-> "CT"]>>,
       <<<<"Chest", "CT", None, "Y">>, [code |-> "24626-4", long_name |-> "CT Chest W contrast IV", component |-> "Chest", method |-> "CT"]>>,
       <<<<"Abdomen", "CT", None, "N">>, [code |-> "24640-5", long_name |-> "CT Abdomen W/O contrast", component |-> "Abdomen", method |-> "CT"]>>,
       <<<<"Abdomen", "CT", None, "Y">>, [code |-> "24639-7", long_name |-> "CT Abdomen W contrast IV", component |-> "Abdomen", method |-> "CT"]>>,
       <<<<"Brain", "CT", None, "N">>, [code |-> "24558-9", long_name |-> "CT Head W/O contrast", component |-> "Head", method |-> "CT"]>>,
       <<<<"Brain", "CT", None, "Y">>, [code |-> "24557-1", long_name |-> "CT Head W contrast IV", component |-> "Head", method |-> "CT"]>>,
       <<<<"Head", "CT", None, "N">>, [code |-> "24558-9", long_name |-> "CT Head W/O contrast", component |-> "Head", method |-> "CT"]>>,
       <<<<"Head", "CT", None, "Y">>, [code |-> "24557-1", long_name |-> "CT Head W contrast IV", component |-> "Head", method |-> "CT"]>>,
       <<<<"Brain", "MR", None, "N">>, [code |-> "24556-3", long_name |-> "MRI Brain W/O contrast", component |-> "Brain", method |-> "MRI"]>>,
       <<<<"Brain", "MR", None, "Y">>, [code |-> "24555-5", long_name |-> "MRI Brain W contrast IV", component |-> "Brain", method |-> "MRI"]>>,
       <<<<"Brain", "MRI", None, "Y">>, [code |-> "24555-5", long_name |-> "MRI Brain W contrast IV", component |-> "Brain", method |-> "MRI"]>>,
       <<<<"Brain", "MRI", None, "N">>, [code |-> "24556-3", long_name |-> "MRI Brain W/O contrast", component |-> "Brain", method |-> "MRI"]>>,
       <<<<"Cervical spine", "CR", None, "N">>, [code |-> "36713-6", long_name |-> "XR Cervical spine", component |-> "Cervical spine", method |-> "XR"]>>,
       <<<<"Cervical spine", "CT", None, "N">>, [code |-> "24800-5", long_name |-> "CT Cervical spine W/O contrast", component |-> "Cervical spine", method |-> "CT"]>>,
       <<<<"Cervical spine", "MR", None, "N">>, [code |-> "24852-6", long_name |-> "MRI Cervical spine W/O contrast", component |-> "Cervical spine", method |-> "MRI"]>>,
       <<<<"Cervical spine", "MRI", None, "N">>, [code |-> "24852-6", long_name |-> "MRI Cervical spine W/O contrast", component |-> "Cervical spine", method |-> "MRI"]>>,
       <<<<"Lumbar spine", "CR", None, "N">>, [code |-> "36714-4", long_name |-> "XR Lumbar spine", component |-> "Lumbar spine", method |-> "XR"]>>,
       <<<<"Lumbar spine", "XR", None, "N">>, [code |-> "36714-4", long_name |-> "XR Lumbar spine", component |-> "Lumbar spine", method |-> "XR"]>>,
       <<<<"Lumbar spine", "CT", None, "N">>, [code |-> "24802-1", long_name |-> "CT Lumbar spine W/O contrast", component |-> "Lumbar spine", method |-> "CT"]>>,
       <<<<"Lumbar spine", "MR", None, "N">>, [code |-> "24860-9", long_name |-> "MRI Lumbar spine W/O contrast", component |-> "Lumbar spine", method |-> "MRI"]>>,
       <<<<"Lumbar spine", "MRI", None, "N">>, [code |-> "24860-9", long_name |-> "MRI Lumbar spine W/O contrast", component |-> "Lumbar spine", method |-> "MRI"]>>,
       <<<<"Hand", "CR", "Right", "N">>, [code |-> "37362-0", long_name |-> "XR Hand - right", component |-> "Hand - right", method |-> "XR"]>>,
       <<<<"Hand", "XR", "Right", "N">>, [code |-> "37362-0", long_name |-> "XR Hand - right", component |-> "Hand - right", method |-> "XR"]>>,
       <<<<"Hand", "CR", "Left", "N">>, [code |-> "37361-2", long_name |-> "XR Hand - left", component |-> "Hand - left", method |-> "XR"]>>,
       <<<<"Hand", "XR", "Left", "N">>, [code |-> "37361-2", long_name |-> "XR Hand - left", component |-> "Hand - left", method |-> "XR"]>>,
       <<<<"Knee", "CR", "Right", "N">>, [code |-> "37628-4", long_name |-> "XR Knee - right", component |-> "Knee - right", method |-> "XR"]>>,
       <<<<"Knee", "XR", "Right", "N">>, [code |-> "37628-4", long_name |-> "XR Knee - right", component |-> "Knee - right", method |-> "XR"]>>,
       <<<<"Knee", "CR", "Left", "N">>, [code |-> "37627-6", long_name |-> "XR Knee - left", component |-> "Knee - left", method |-> "XR"]>>,
       <<<<"Knee", "XR", "Left", "N">>, [code |-> "37627-6", long_name |-> "XR Knee - left", component |-> "Knee - left", method |-> "XR"]>>,
       <<<<"Knee", "CR", "Bilateral", "N">>, [code |-> "69161-8", long_name |-> "XR Knee - bilateral", component |-> "Knee - bilateral", method |-> "XR"]>>,
       <<<<"Knee", "XR", "Bilateral", "N">>, [code |-> "69161-8", long_name |-> "XR Knee - bilateral", component |-> "Knee - bilateral", method |-> "XR"]>>,
       <<<<"Knee", "MR", "Right", "N">>, [code |-> "24876-5", long_name |-> "MRI Knee - right W/O contrast", component |-> "Knee - right", method |-> "MRI"]>>,
       <<<<"Knee", "MRI", "Right", "N">>, [code |-> "24876-5", long_name |-> "MRI Knee - right W/O contrast", component |-> "Knee - right", method |-> "MRI"]>>,
       <<<<"Knee", "MR", "Left", "N">>, [code |-> "24875-7", long_name |-> "MRI Knee - left W/O contrast", component |-> "Knee - left", method |-> "MRI"]>>,
       <<<<"Knee", "MRI", "Left", "N">>, [code |-> "24875-7", long_name |-> "MRI Knee - left W/O contrast", component |-> "Knee - left", method |-> "MRI"]>>,
       <<<<"Pelvis", "CR", None, "N">>, [code |-> "37748-0", long_name |-> "XR Pelvis", component |-> "Pelvis", method |-> "XR"]>>,
       <<<<"Pelvis", "XR", None, "N">>, [code |-> "37748-0", long_name |-> "XR Pelvis", component |-> "Pelvis", method |-> "XR"]>>,
       <<<<"Pelvis", "CT", None, "N">>, [code |-> "24907-8", long_name |-> "CT Pelvis W/O contrast", component |-> "Pelvis", method |-> "CT"]>>,
       <<<<"Pelvis", "MR", None, "N">>, [code |-> "24926-8", long_name |-> "MRI Pelvis W/O contrast", component |-> "Pelvis", method |-> "MRI"]>>,
       <<<<"Abdomen", "CT", None, "Y">>, [code |-> "79101-4", long_name |-> "CT Abdomen and Pelvis W contrast IV", component |-> "Abdomen and Pelvis", method |-> "CT"]>>,
       <<<<"Abdomen", "US", None, "N">>, [code |-> "30704-1", long_name |-> "US Abdomen", component |-> "Abdomen", method |-> "US"]>>,
       <<<<"Liver", "US", None, "N">>, [code |-> "30705-8", long_name |-> "US Liver", component |-> "Liver", method |-> "US"]>>,
       <<<<"Kidney", "US", None, "N">>, [code |-> "24642-1", long_name |-> "US Kidney", component |-> "Kidney", method |-> "US"]>>,
       <<<<"Kidney", "US", "Bilateral", "N">>, [code |-> "24642-1", long_name |-> "US Kidney bilateral", component |-> "Kidney", method |-> "US"]>>,
       <<<<"Kidney", "CT", None, "N">>, [code |-> "24645-4", long_name |-> "CT Kidney W/O contrast", component |-> "Kidney", method |-> "CT"]>>,
       <<<<"Ureter", "CT", None, "N">>, [code |-> "72171-2", long_name |-> "CT Ureter", component |-> "Ureter", method |-> "CT"]>>,
       <<<<"Bladder", "CT", None, "N">>, [code |-> "24538-1", long_name |-> "CT Bladder W/O contrast", component |-> "Bladder", method |-> "CT"]>>,
       <<<<"Heart", "XA", None, "Y">>, [code |-> "42798-6", long_name |-> "XA Heart", component |-> "Heart", method |-> "XA"]>>,
       <<<<"Heart", "Angio", None, "Y">>, [code |-> "42798-6", long_name |-> "Angiography Heart", component |-> "Heart", method |-> "Angio"]>>,
       <<<<"Coronary artery", "XA", None, "Y">>, [code |-> "42798-6", long_name |-> "XA Coronary arteries", component |-> "Coronary artery", method |-> "XA"]>>,
       <<<<"Coronary artery", "Angio", None, "Y">>, [code |-> "42798-6", long_name |-> "Angiography Coronary arteries", component |-> "Coronary artery", method |-> "Angio"]>>,
       <<<<"Spine", "BMD", None, "N">>, [code |-> "38262-7", long_name |-> "DXA Bone density in Spine", component |-> "Spine", method |-> "DXA"]>>,
       <<<<"Spine", "DXA", None, "N">>, [code |-> "38262-7", long_name |-> "DXA Bone density in Spine", component |-> "Spine", method |-> "DXA"]>>,
       <<<<"Hip", "BMD", None, "N">>, [code |-> "38263-5", long_name |-> "DXA Bone density in Hip", component |-> "Hip", method |-> "DXA"]>>,
       <<<<"Hip", "DXA", None, "N">>, [code |-> "38263-5", long_name |-> "DXA Bone density in Hip", component |-> "Hip", method |-> "DXA"]>>,
       <<<<"Thoracic spine", "CR", None, "N">>, [code |-> "36715-1", long_name |-> "XR Thoracic spine", component |-> "Thoracic spine", method |-> "XR"]>>,
       <<<<"Thoracic spine", "XR", None, "N">>, [code |-> "36715-1", long_name |-> "XR Thoracic spine", component |-> "Thoracic spine", method |-> "XR"]>>,
       <<<<"Thoracic spine", "CT", None, "N">>, [code |-> "24801-3", long_name |-> "CT Thoracic spine W/O contrast", component |-> "Thoracic spine", method |-> "CT"]>>,
       <<<<"Thoracic spine", "MR", None, "N">>, [code |-> "24856-7", long_name |-> "MRI Thoracic spine W/O contrast", component |-> "Thoracic spine", method |-> "MRI"]>>,
       <<<<"Thoracic spine", "MRI", None, "N">>, [code |-> "24856-7", long_name |-> "MRI Thoracic spine W/O contrast", component |-> "Thoracic spine", method |-> "MRI"]>>,
       <<<<"Cervical spine", "MR", None, "Y">>, [code |-> "24851-8", long_name |-> "MRI Cervical spine W contrast IV", component |-> "Cervical spine", method |-> "MRI"]>>,
       <<<<"Cervical spine", "MRI", None, "Y">>, [code |-> "24851-8", long_name |-> "MRI Cervical spine W contrast IV", component |-> "Cervical spine", method |-> "MRI"]>>,
       <<<<"Thoracic spine", "MR", None, "Y">>, [code |-> "24855-9", long_name |-> "MRI Thoracic spine W contrast IV", component |-> "Thoracic spine", method |-> "MRI"]>>,
       <<<<"Thoracic spine", "MRI", None, "Y">>, [code |-> "24855-9", long_name |-> "MRI Thoracic spine W contrast IV", component |-> "Thoracic spine", method |-> "MRI"]>>,
       <<<<"Lumbar spine", "MR", None, "Y">>, [code |-> "24859-1", long_name |-> "MRI Lumbar spine W contrast IV", component |-> "Lumbar spine", method |-> "MRI"]>>,
       <<<<"Lumbar spine", "MRI", None, "Y">>, [code |-> "24859-1", long_name |-> "MRI Lumbar spine W contrast IV", component |-> "Lumbar spine", method |-> "MRI"]>>,
       <<<<"Shoulder", "CR", "Right", "N">>, [code |-> "37016-2", long_name |-> "XR Shoulder - right", component |-> "Shoulder - right", method |-> "XR"]>>,
       <<<<"Shoulder", "XR", "Right", "N">>, [code |-> "37016-2", long_name |-> "XR Shoulder - right", component |-> "Shoulder - right", method |-> "XR"]>>,
       <<<<"Shoulder", "CR", "Left", "N">>, [code |-> "37015-4", long_name |-> "XR Shoulder - left", component |-> "Shoulder - left", method |-> "XR"]>>,
       <<<<"Shoulder", "XR", "Left", "N">>, [code |-> "37015-4", long_name |-> "XR Shoulder - left", component |-> "Shoulder - left", method |-> "XR"]>>,
       <<<<"Shoulder", "MR", "Right", "N">>, [code |-> "24882-3", long_name |-> "MRI Shoulder - right W/O contrast", component |-> "Shoulder - right", method |-> "MRI"]>>,
       <<<<"Shoulder", "MRI", "Right", "N">>, [code |-> "24882-3", long_name |-> "MRI Shoulder - right W/O contrast", component |-> "Shoulder - right", method |-> "MRI"]>>,
       <<<<"Shoulder", "MR", "Left", "N">>, [code |-> "24881-5", long_name |-> "MRI Shoulder - left W/O contrast", component |-> "Shoulder - left", method |-> "MRI"]>>,
       <<<<"Shoulder", "MRI", "Left", "N">>, [code |-> "24881-5", long_name |-> "MRI Shoulder - left W/O contrast", component |-> "Shoulder - left", method |-> "MRI"]>>,
       <<<<"Elbow", "CR", "Right", "N">>, [code |-> "37256-4", long_name |-> "XR Elbow - right", component |-> "Elbow - right", method |-> "XR"]>>,
       <<<<"Elbow", "XR", "Right", "N">>, [code |-> "37256-4", long_name |-> "XR Elbow - right", component |-> "Elbow - right", method |-> "XR"]>>,
       <<<<"Elbow", "CR", "Left", "N">>, [code |-> "37255-6", long_name |-> "XR Elbow - left", component |-> "Elbow - left", method |-> "XR"]>>,
       <<<<"Elbow", "XR", "Left", "N">>, [code |-> "37255-6", long_name |-> "XR Elbow - left", component |-> "Elbow - left", method |-> "XR"]>>,
       <<<<"Wrist", "CR", "Right", "N">>, [code |-> "37022-0", long_name |-> "XR Wrist - right", component |-> "Wrist - right", method |-> "XR"]>>,
       <<<<"Wrist", "XR", "Right", "N">>, [code |-> "37022-0", long_name |-> "XR Wrist - right", component |-> "Wrist - right", method |-> "XR"]>>,
       <<<<"Wrist", "CR", "Left", "N">>, [code |-> "37021-2", long_name |-> "XR Wrist - left", component |-> "Wrist - left", method |-> "XR"]>>,
       <<<<"Wrist", "XR", "Left", "N">>, [code |-> "37021-2", long_name |-> "XR Wrist - left", component |-> "Wrist - left", method |-> "XR"]>>,
       <<<<"Hip", "CR", "Right", "N">>, [code |-> "37606-0", long_name |-> "XR Hip - right", component |-> "Hip - right", method |-> "XR"]>>,
       <<<<"Hip", "XR", "Right", "N">>, [code |-> "37606-0", long_name |-> "XR Hip - right", component |-> "Hip - right", method |-> "XR"]>>,
       <<<<"Hip", "CR", "Left", "N">>, [code |-> "37605-2", long_name |-> "XR Hip - left", component |-> "Hip - left", method |-> "XR"]>>,
       <<<<"Hip", "XR", "Left", "N">>, [code |-> "37605-2", long_name |-> "XR Hip - left", component |-> "Hip - left", method |-> "XR"]>>,
       <<<<"Hip", "CR", "Bilateral", "N">>, [code |-> "37604-5", long_name |-> "XR Hip - bilateral", component |-> "Hip - bilateral", method |-> "XR"]>>,
       <<<<"Hip", "XR", "Bilateral", "N">>, [code |-> "37604-5", long_name |-> "XR Hip - bilateral", component |-> "Hip - bilateral", method |-> "XR"]>>,
       <<<<"Hip", "MR", "Right", "N">>, [code |-> "24869-0", long_name |-> "MRI Hip - right W/O contrast", component |-> "Hip - right", method |-> "MRI"]>>,
       <<<<"Hip", "MRI", "Right", "N">>, [code |-> "24869-0", long_name |-> "MRI Hip - right W/O contrast", component |-> "Hip - right", method |-> "MRI"]>>,
       <<<<"Hip", "MR", "Left", "N">>, [code |-> "24868-2", long_name |-> "MRI Hip - left W/O contrast", component |-> "Hip - left", method |-> "MRI"]>>,
       <<<<"Hip", "MRI", "Left", "N">>, [code |-> "24868-2", long_name |-> "MRI Hip - left W/O contrast", component |-> "Hip - left", method |-> "MRI"]>>,
       <<<<"Ankle", "CR", "Right", "N">>, [code |-> "37048-2", long_name |-> "XR Ankle - right", component |-> "Ankle - right", method |-> "XR"]>>,
       <<<<"Ankle", "XR", "Right", "N">>, [code |-> "37048-2", long_name |-> "XR Ankle - right", component |-> "Ankle - right", method |-> "XR"]>>,
       <<<<"Ankle", "CR", "Left", "N">>, [code |-> "37047-4", long_name |-> "XR Ankle - left", component |-> "Ankle - left", method |-> "XR"]>>,
       <<<<"Ankle", "XR", "Left", "N">>, [code |-> "37047-4", long_name |-> "XR Ankle - left", component |-> "Ankle - left", method |-> "XR"]>>,
       <<<<"Ankle", "MR", "Right", "N">>, [code |-> "24900-3", long_name |-> "MRI Ankle - right W/O contrast", component |-> "Ankle - right", method |-> "MRI"]>>,
       <<<<"Ankle", "MRI", "Right", "N">>, [code |-> "24900-3", long_name |-> "MRI Ankle - right W/O contrast", component |-> "Ankle - right", method |-> "MRI"]>>,
       <<<<"Ankle", "MR", "Left", "N">>, [code |-> "24899-7", long_name |-> "MRI Ankle - left W/O contrast", component |-> "Ankle - left", method |-> "MRI"]>>,
       <<<<"Ankle", "MRI", "Left", "N">>, [code |-> "24899-7", long_name |-> "MRI Ankle - left W/O contrast", component |-> "Ankle - left", method |-> "MRI"]>>,
       <<<<"Foot", "CR", "Right", "N">>, [code |-> "37542-4", long_name |-> "XR Foot - right", component |-> "Foot - right", method |-> "XR"]>>,
       <<<<"Foot", "XR", "Right", "N">>, [code |-> "37542-4", long_name |-> "XR Foot - right", component |-> "Foot - right", method |-> "XR"]>>,
       <<<<"Foot", "CR", "Left", "N">>, [code |-> "37541-6", long_name |-> "XR Foot - left", component |-> "Foot - left", method |-> "XR"]>>,
       <<<<"Foot", "XR", "Left", "N">>, [code |-> "37541-6", long_name |-> "XR Foot - left", component |-> "Foot - left", method |-> "XR"]>>,
       <<<<"Skull", "CR", None, "N">>, [code |-> "36588-2", long_name |-> "XR Skull", component |-> "Skull", method |-> "XR"]>>,
       <<<<"Skull", "XR", None, "N">>, [code |-> "36588-2", long_name |-> "XR Skull", component |-> "Skull", method |-> "XR"]>>,
       <<<<"Sinus", "CR", None, "N">>, [code |-> "36740-9", long_name |-> "XR Paranasal sinuses", component |-> "Sinus", method |-> "XR"]>>,
       <<<<"Sinus", "XR", None, "N">>, [code |-> "36740-9", long_name |-> "XR Paranasal sinuses", component |-> "Sinus", method |-> "XR"]>>,
       <<<<"Sinus", "CT", None, "N">>, [code |-> "24671-0", long_name |-> "CT Paranasal sinuses W/O contrast", component |-> "Sinus", method |-> "CT"]>>,
       <<<<"Neck", "CT", None, "N">>, [code |-> "24551-4", long_name |-> "CT Neck W/O contrast", component |-> "Neck", method |-> "CT"]>>,
       <<<<"Neck", "CT", None, "Y">>, [code |-> "24550-6", long_name |-> "CT Neck W contrast IV", component |-> "Neck", method |-> "CT"]>>,
       <<<<"Neck", "MR", None, "N">>, [code |-> "24864-1", long_name |-> "MRI Neck W/O contrast", component |-> "Neck", method |-> "MRI"]>>,
       <<<<"Neck", "MRI", None, "N">>, [code |-> "24864-1", long_name |-> "MRI Neck W/O contrast", component |-> "Neck", method |-> "MRI"]>>,
       <<<<"Neck", "MR", None, "Y">>, [code |-> "24863-3", long_name |-> "MRI Neck W contrast IV", component |-> "Neck", method |-> "MRI"]>>,
       <<<<"Neck", "MRI", None, "Y">>, [code |-> "24863-3", long_name |-> "MRI Neck W contrast IV", component |-> "Neck", method |-> "MRI"]>>,
       <<<<"Chest", "MR", None, "N">>, [code |-> "24629-8", long_name |-> "MRI Chest W/O contrast", component |-> "Chest", method |-> "MRI"]>>,
       <<<<"Chest", "MRI", None, "N">>, [code |-> "24629-8", long_name |-> "MRI Chest W/O contrast", component |-> "Chest", method |-> "MRI"]>>,
       <<<<"Abdomen", "MR", None, "N">>, [code |-> "24637-1", long_name |-> "MRI Abdomen W/O contrast", component |-> "Abdomen", method |-> "MRI"]>>,
       <<<<"Abdomen", "MRI", None, "N">>, [code |-> "24637-1", long_name |-> "MRI Abdomen W/O contrast", component |-> "Abdomen", method |-> "MRI"]>>,
       <<<<"Abdomen", "MR", None, "Y">>, [code |-> "24636-3", long_name |-> "MRI Abdomen W contrast IV", component |-> "Abdomen", method |-> "MRI"]>>,
       <<<<"Abdomen", "MRI", None, "Y">>, [code |-> "24636-3", long_name |-> "MRI Abdomen W contrast IV", component |-> "Abdomen", method |-> "MRI"]>>,
       <<<<"Pelvis", "CT", None, "Y">>, [code |-> "24906-0", long_name |-> "CT Pelvis W contrast IV", component |-> "Pelvis", method |-> "CT"]>>,
       <<<<"Gallbladder", "US", None, "N">>, [code |-> "30707-4", long_name |-> "US Gallbladder", component |-> "Gallbladder", method |-> "US"]>>,
       <<<<"Pancreas", "US", None, "N">>, [code |-> "30708-2", long_name |-> "US Pancreas", component |-> "Pancreas", method |-> "US"]>>,
       <<<<"Spleen", "US", None, "N">>, [code |-> "30709-0", long_name |-> "US Spleen", component |-> "Spleen", method |-> "US"]>>,
       <<<<"Thyroid", "US", None, "N">>, [code |-> "30734-8", long_name |-> "US Thyroid", component |-> "Thyroid", method |-> "US"]>>,
       <<<<"Breast", "US", "Right", "N">>, [code |-> "24604-1", long_name |-> "US Breast - right", component |-> "Breast - right", method |-> "US"]>>,
       <<<<"Breast", "US", "Left", "N">>, [code |-> "24603-3", long_name |-> "US Breast - left", component |-> "Breast - left", method |-> "US"]>>,
       <<<<"Breast", "US", "Bilateral", "N">>, [code |-> "24602-5", long_name |-> "US Breast - bilateral", component |-> "Breast - bilateral", method |-> "US"]>>,
       <<<<"Pelvis", "US", None, "N">>, [code |-> "30710-8", long_name |-> "US Pelvis", component |-> "Pelvis", method |-> "US"]>>,
       <<<<"Scrotum", "US", None, "N">>, [code |-> "30712-4", long_name |-> "US Scrotum", component |-> "Scrotum", method |-> "US"]>>,
       <<<<"Carotid artery", "US", None, "N">>, [code |-> "24728-8", long_name |-> "US Carotid artery", component |-> "Carotid artery", method |-> "US"]>>,
       <<<<"Carotid artery", "US", "Bilateral", "N">>, [code |-> "24728-8", long_name |-> "US Carotid artery bilateral", component |-> "Carotid artery", method |-> "US"]>>,
       <<<<"Aorta", "CT", None, "Y">>, [code |-> "30598-7", long_name |-> "CTA Aorta", component |-> "Aorta", method |-> "CTA"]>>,
       <<<<"Coronary artery", "CT", None, "Y">>, [code |-> "79073-5", long_name |-> "CTA Coronary arteries", component |-> "Coronary artery", method |-> "CTA"]>>,
       <<<<"Pulmonary artery", "CT", None, "Y">>, [code |-> "36814-3", long_name |-> "CTA Pulmonary artery", component |-> "Pulmonary artery", method |-> "CTA"]>>,
       <<<<"Brain", "MRA", None, "N">>, [code |-> "24590-2", long_name |-> "MRA Brain W/O contrast", component |-> "Brain", method |-> "MRA"]>>,
       <<<<"Brain", "MRA", None, "Y">>, [code |-> "24589-4", long_name |-> "MRA Brain W contrast IV", component |-> "Brain", method |-> "MRA"]>>,
       <<<<"Neck", "MRA", None, "N">>, [code |-> "24597-7", long_name |-> "MRA Neck W/O contrast", component |-> "Neck", method |-> "MRA"]>>,
       <<<<"Neck", "MRA", None, "Y">>, [code |-> "24596-9", long_name |-> "MRA Neck W contrast IV", component |-> "Neck", method |-> "MRA"]>>,
       <<<<"Breast", "MG", "Right", "N">>, [code |-> "24606-6", long_name |-> "MG Breast - right screening", component |-> "Breast - right", method |-> "MG"]>>,
       <<<<"Breast", "MG", "Left", "N">>, [code |-> "24605-8", long_name |-> "MG Breast - left screening", component |-> "Breast - left", method |-> "MG"]>>,
       <<<<"Breast", "MG", "Bilateral", "N">>, [code |-> "24604-1", long_name |-> "MG Breast - bilateral screening", component |-> "Breast - bilateral", method |-> "MG"]>>,
       <<<<"Whole body", "CT", None, "Y">>, [code |-> "24962-3", long_name |-> "CT Whole body W contrast IV", component |-> "Whole body", method |-> "CT"]>>,
       <<<<"Whole body", "CT", None, "N">>, [code |-> "24963-1", long_name |-> "CT Whole body W/O contrast", component |-> "Whole body", method |-> "CT"]>>,
       <<<<"Whole body", "BMD", None, "N">>, [code |-> "38265-0", long_name |-> "DXA Whole body bone density", component |-> "Whole body", method |-> "DXA"]>> >>

LOINC_DATABASE == DictOf(LOINC_DATABASE_ITEMS)

MODALITY_TO_METHOD_ITEMS ==
    << <<"CR", "XR">>,
       <<"XR", "XR">>,
       <<"CT", "CT">>,
       <<"MR", "MRI">>,
       <<"MRI", "MRI">>,
       <<"US", "US">>,
       <<"RF", "Fluoro">>,
       <<"XA", "Angio">>,
       <<"BMD", "DXA">>,
       <<"OT", "OT">> >>

MODALITY_TO_METHOD == DictOf(MODALITY_TO_METHOD_ITEMS)

GENERIC_LOINC_PATTERNS_ITEMS ==
    << <<"XR", "LP29684-5">>,
       <<"CT", "LP29708-2">>,
       <<"MRI", "LP29709-0">>,
       <<"US", "LP29262-0">>,
       <<"Fluoro", "LP29685-2">>,
       <<"Angio", "LP29263-8">>,
       <<"DXA", "LP29697-7">> >>

GENERIC_LOINC_PATTERNS == DictOf(GENERIC_LOINC_PATTERNS_ITEMS)

\* src/src/icd10pcs_database.py: the ICD10PCS_DATABASE dict literal, item by item.
ICD10PCS_DATABASE_ITEMS ==
    << <<<<"Brain", "CT", None, "N">>, [code |-> "B020ZZZ", description |-> "CT Brain without contrast", section |-> "B", body_system |-> "0", root_type |-> "2", body_part |-> "0", contrast |-> "Z", qualifier1 |-> "Z", qualifier2 |-> "Z"]>>,
       <<<<"Brain", "CT", None, "Y">>, [code |-> "B0200ZZ", description |-> "CT Brain with contrast, unenhanced and enhanced", section |-> "B", body_system |-> "0", root_type |-> "2", body_part |-> "0", contrast |-> "0", qualifier1 |-> "Z", qualifier2 |-> "Z"]>>,
       <<<<"Brain", "MR", None, "N">>, [code |-> "B030ZZZ", description |-> "MRI Brain without contrast", section |-> "B", body_system |-> "0", root_type |-> "3", body_part |-> "0", contrast |-> "Z", qualifier1 |-> "Z", qualifier2 |-> "Z"]>>,
       <<<<"Brain", "MR", None, "Y">>, [code |-> "B0300ZZ", description |-> "MRI Brain with contrast, unenhanced and enhanced", section |-> "B", body_system |-> "0", root_type |-> "3", body_part |-> "0", contrast |-> "0", qualifier1 |-> "Z", qualifier2 |-> "Z"]>>,
       <<<<"Brain", "MRI", None, "N">>, [code |-> "B030ZZZ", description |-> "MRI Brain without contrast", section |-> "B", body_system |-> "0", root_type |-> "3", body_part |-> "0", contrast |-> "Z", qualifier1 |-> "Z", qualifier2 |-> "Z"]>>,
       <<<<"Brain", "MRI", None, "Y">>, [code |-> "B0300ZZ", description |-> "MRI Brain with contrast, unenhanced and enhanced", section |-> "B", body_system |-> "0", root_type |-> "3", body_part |-> "0", contrast |-> "0", qualifier1 |-> "Z", qualifier2 |-> "Z"]>>,
       <<<<"Chest", "CR", None, "N">>, [code |-> "BW03ZZZ", description |-> "Plain Radiography Chest", section |-> "B", body_system |-> "W", root_type |-> "0", body_part |-> "3", contrast |-> "Z", qualifier1 |-> "Z", qualifier2 |-> "Z"]>>,
       <<<<"Chest", "XR", None, "N">>, [code |-> "BW03ZZZ", description |-> "Plain Radiography Chest", section |-> "B", body_system |-> "W", root_type |-> "0", body_part |-> "3", contrast |-> "Z", qualifier1 |-> "Z", qualifier2 |-> "Z"]>>,
       <<<<"Chest", "CT", None, "N">>, [code |-> "BW24ZZZ", description |-> "CT Chest without contrast", section |-> "B", body_system |-> "W", root_type |-> "2", body_part |-> "4", contrast |-> "Z", qualifier1 |-> "Z", qualifier2 |-> "Z"]>>,
       <<<<"Chest", "CT", None, "Y">>, [code |-> "BW240ZZ", description |-> "CT Chest with contrast", section |-> "B", body_system |-> "W", root_type |-> "2", body_part |-> "4", contrast |-> "0", qualifier1 |-> "Z", qualifier2 |-> "Z"]>>,
       <<<<"Cervical spine", "CR", None, "N">>, [code |-> "BR00ZZZ", description |-> "Plain Radiography Cervical Spine", section |-> "B", body_system |-> "R", root_type |-> "0", body_part |-> "0", contrast |-> "Z", qualifier1 |-> "Z", qualifier2 |-> "Z"]>>,
       <<<<"Cervical spine", "XR", None, "N">>, [code |-> "BR00ZZZ", description |-> "Plain Radiography Cervical Spine", section |-> "B", body_system |-> "R", root_type |-> "0", body_part |-> "0", contrast |-> "Z", qualifier1 |-> "Z", qualifier2 |-> "Z"]>>,
       <<<<"Cervical spine", "CT", None, "N">>, [code |-> "BR20ZZZ", description |-> "CT Cervical Spine without contrast", section |-> "B", body_system |-> "R", root_type |-> "2", body_part |-> "0", contrast |-> "Z", qualifier1 |-> "Z", qualifier2 |-> "Z"]>>,
       <<<<"Cervical spine", "MR", None, "N">>, [code |-> "BR30ZZZ", description |-> "MRI Cervical Spine without contrast", section |-> "B", body_system |-> "R", root_type |-> "3", body_part |-> "0", contrast |-> "Z", qualifier1 |-> "Z", qualifier2 |-> "Z"]>>,
       <<<<"Cervical spine", "MRI", None, "N">>, [code |-> "BR30ZZZ", description |-> "MRI Cervical Spine without contrast", section |-> "B", body_system |-> "R", root_type |-> "3", body_part |-> "0", contrast |-> "Z", qualifier1 |-> "Z", qualifier2 |-> "Z"]>>,
       <<<<"Lumbar spine", "CR", None, "N">>, [code |-> "BR03ZZZ", description |-> "Plain Radiography Lumbar Spine", section |-> "B", body_system |-> "R", root_type |-> "0", body_part |-> "3", contrast |-> "Z", qualifier1 |-> "Z", qualifier2 |-> "Z"]>>,
       <<<<"Lumbar spine", "XR", None, "N">>, [code |-> "BR03ZZZ", description |-> "Plain Radiography Lumbar Spine", section |-> "B", body_system |-> "R", root_type |-> "0", body_part |-> "3", contrast |-> "Z", qualifier1 |-> "Z", qualifier2 |-> "Z"]>>,
       <<<<"Lumbar spine", "CT", None, "N">>, [code |-> "BR23ZZZ", description |-> "CT Lumbar Spine without contrast", section |-> "B", body_system |-> "R", root_type |-> "2", body_part |-> "3", contrast |-> "Z", qualifier1 |-> "Z", qualifier2 |-> "Z"]>>,
       <<<<"Lumbar spine", "MR", None, "N">>, [code |-> "BR33ZZZ", description |-> "MRI Lumbar Spine without contrast", section |-> "B", body_system |-> "R", root_type |-> "3", body_part |-> "3", contrast |-> "Z", qualifier1 |-> "Z", qualifier2 |-> "Z"]>>,
       <<<<"Lumbar spine", "MRI", None, "N">>, [code |-> "BR33ZZZ", description |-> "MRI Lumbar Spine without contrast", section |-> "B", body_system |-> "R", root_type |-> "3", body_part |-> "3", contrast |-> "Z", qualifier1 |-> "Z", qualifier2 |-> "Z"]>>,
       <<<<"Hand", "CR", "Right", "N">>, [code |-> "BP0JZZZ", description |-> "Plain Radiography Right Hand", section |-> "B", body_system |-> "P", root_type |-> "0", body_part |-> "J", contrast |-> "Z", qualifier1 |-> "Z", qualifier2 |-> "Z"]>>,
       <<<<"Hand", "XR", "Right", "N">>, [code |-> "BP0JZZZ", description |-> "Plain Radiography Right Hand", section |-> "B", body_system |-> "P", root_type |-> "0", body_part |-> "J", contrast |-> "Z", qualifier1 |-> "Z", qualifier2 |-> "Z"]>>,
       <<<<"Hand", "CR", "Left", "N">>, [code |-> "BP0KZZZ", description |-> "Plain Radiography Left Hand", section |-> "B", body_system |-> "P", root_type |-> "0", body_part |-> "K", contrast |-> "Z", qualifier1 |-> "Z", qualifier2 |-> "Z"]>>,
       <<<<"Hand", "XR", "Left", "N">>, [code |-> "BP0KZZZ", description |-> "Plain Radiography Left Hand", section |-> "B", body_system |-> "P", root_type |-> "0", body_part |-> "K", contrast |-> "Z", qualifier1 |-> "Z", qualifier2 |-> "Z"]>>,
       <<<<"Knee", "CR", "Right", "N">>, [code |-> "BQ0CZZZ", description |-> "Plain Radiography Right Knee", section |-> "B", body_system |-> "Q", root_type |-> "0", body_part |-> "C", contrast |-> "Z", qualifier1 |-> "Z", qualifier2 |-> "Z"]>>,
       <<<<"Knee", "XR", "Right", "N">>, [code |-> "BQ0CZZZ", description |-> "Plain Radiography Right Knee", section |-> "B", body_system |-> "Q", root_type |-> "0", body_part |-> "C", contrast |-> "Z", qualifier1 |-> "Z", qualifier2 |-> "Z"]>>,
       <<<<"Knee", "CR", "Left", "N">>, [code |-> "BQ0DZZZ", description |-> "Plain Radiography Left Knee", section |-> "B", body_system |-> "Q", root_type |-> "0", body_part |-> "D", contrast |-> "Z", qualifier1 |-> "Z", qualifier2 |-> "Z"]>>,
       <<<<"Knee", "XR", "Left", "N">>, [code |-> "BQ0DZZZ", description |-> "Plain Radiography Left Knee", section |-> "B", body_system |-> "Q", root_type |-> "0", body_part |-> "D", contrast |-> "Z", qualifier1 |-> "Z", qualifier2 |-> "Z"]>>,
       <<<<"Knee", "CR", "Bilateral", "N">>, [code |-> "BQ09ZZZ", description |-> "Plain Radiography Bilateral Knees", section |-> "B", body_system |-> "Q", root_type |-> "0", body_part |-> "9", contrast |-> "Z", qualifier1 |-> "Z", qualifier2 |-> "Z"]>>,
       <<<<"Knee", "XR", "Bilateral", "N">>, [code |-> "BQ09ZZZ", description |-> "Plain Radiography Bilateral Knees", section |-> "B", body_system |-> "Q", root_type |-> "0", body_part |-> "9", contrast |-> "Z", qualifier1 |-> "Z", qualifier2 |-> "Z"]>>,
       <<<<"Knee", "MR", "Right", "N">>, [code |-> "BQ3CZZZ", description |-> "MRI Right Knee without contrast", section |-> "B", body_system |-> "Q", root_type |-> "3", body_part |-> "C", contrast |-> "Z", qualifier1 |-> "Z", qualifier2 |-> "Z"]>>,
       <<<<"Knee", "MRI", "Right", "N">>, [code |-> "BQ3CZZZ", description |-> "MRI Right Knee without contrast", section |-> "B", body_system |-> "Q", root_type |-> "3", body_part |-> "C", contrast |-> "Z", qualifier1 |-> "Z", qualifier2 |-> "Z"]>>,
       <<<<"Knee", "MR", "Left", "N">>, [code |-> "BQ3DZZZ", description |-> "MRI Left Knee without contrast", section |-> "B", body_system |-> "Q", root_type |-> "3", body_part |-> "D", contrast |-> "Z", qualifier1 |-> "Z", qualifier2 |-> "Z"]>>,
       <<<<"Knee", "MRI", "Left", "N">>, [code |-> "BQ3DZZZ", description |-> "MRI Left Knee without contrast", section |-> "B", body_system |-> "Q", root_type |-> "3", body_part |-> "D", contrast |-> "Z", qualifier1 |-> "Z", qualifier2 |-> "Z"]>>,
       <<<<"Abdomen", "CT", None, "N">>, [code |-> "BW20ZZZ", description |-> "CT Abdomen without contrast", section |-> "B", body_system |-> "W", root_type |-> "2", body_part |-> "0", contrast |-> "Z", qualifier1 |-> "Z", qualifier2 |-> "Z"]>>,
       <<<<"Abdomen", "CT", None, "Y">>, [code |-> "BW200ZZ", description |-> "CT Abdomen with contrast", section |-> "B", body_system |-> "W", root_type |-> "2", body_part |-> "0", contrast |-> "0", qualifier1 |-> "Z", qualifier2 |-> "Z"]>>,
       <<<<"Abdomen", "US", None, "N">>, [code |-> "BW40ZZZ", description |-> "Ultrasonography Abdomen", section |-> "B", body_system |-> "W", root_type |-> "4", body_part |-> "0", contrast |-> "Z", qualifier1 |-> "Z", qualifier2 |-> "Z"]>>,
       <<<<"Pelvis", "CR", None, "N">>, [code |-> "BW0HZZZ", description |-> "Plain Radiography Pelvis", section |-> "B", body_system |-> "W", root_type |-> "0", body_part |-> "H", contrast |-> "Z", qualifier1 |-> "Z", qualifier2 |-> "Z"]>>,
       <<<<"Pelvis", "XR", None, "N">>, [code |-> "BW0HZZZ", description |-> "Plain Radiography Pelvis", section |-> "B", body_system |-> "W", root_type |-> "0", body_part |-> "H", contrast |-> "Z", qualifier1 |-> "Z", qualifier2 |-> "Z"]>>,
       <<<<"Pelvis", "CT", None, "N">>, [code |-> "BW2GZZZ", description |-> "CT Pelvis without contrast", section |-> "B", body_system |-> "W", root_type |-> "2", body_part |-> "G", contrast |-> "Z", qualifier1 |-> "Z", qualifier2 |-> "Z"]>>,
       <<<<"Liver", "US", None, "N">>, [code |-> "BF45ZZZ", description |-> "Ultrasonography Liver", section |-> "B", body_system |-> "F", root_type |-> "4", body_part |-> "5", contrast |-> "Z", qualifier1 |-> "Z", qualifier2 |-> "Z"]>>,
       <<<<"Kidney", "US", None, "N">>, [code |-> "BT45ZZZ", description |-> "Ultrasonography Kidney", section |-> "B", body_system |-> "T", root_type |-> "4", body_part |-> "5", contrast |-> "Z", qualifier1 |-> "Z", qualifier2 |-> "Z"]>>,
       <<<<"Kidney", "US", "Bilateral", "N">>, [code |-> "BT45ZZZ", description |-> "Ultrasonography Bilateral Kidneys", section |-> "B", body_system |-> "T", root_type |-> "4", body_part |-> "5", contrast |-> "Z", qualifier1 |-> "Z", qualifier2 |-> "Z"]>>,
       <<<<"Kidney", "CT", None, "N">>, [code |-> "BT25ZZZ", description |-> "CT Kidney without contrast", section |-> "B", body_system |-> "T", root_type |-> "2", body_part |-> "5", contrast |-> "Z", qualifier1 |-> "Z", qualifier2 |-> "Z"]>>,
       <<<<"Ureter", "CT", None, "N">>, [code |-> "BT26ZZZ", description |-> "CT Ureter without contrast", section |-> "B", body_system |-> "T", root_type |-> "2", body_part |-> "6", contrast |-> "Z", qualifier1 |-> "Z", qualifier2 |-> "Z"]>>,
       <<<<"Bladder", "CT", None, "N">>, [code |-> "BT27ZZZ", description |-> "CT Bladder without contrast", section |-> "B", body_system |-> "T", root_type |-> "2", body_part |-> "7", contrast |-> "Z", qualifier1 |-> "Z", qualifier2 |-> "Z"]>>,
       <<<<"Heart", "XA", None, "Y">>, [code |-> "B2161ZZ", description |-> "Fluoroscopy Heart with contrast", section |-> "B", body_system |-> "2", root_type |-> "1", body_part |-> "6", contrast |-> "1", qualifier1 |-> "Z", qualifier2 |-> "Z"]>>,
       <<<<"Coronary artery", "XA", None, "Y">>, [code |-> "B2101ZZ", description |-> "Fluoroscopy Coronary Arteries with contrast", section |-> "B", body_system |-> "2", root_type |-> "1", body_part |-> "0", contrast |-> "1", qualifier1 |-> "Z", qualifier2 |-> "Z"]>> >>

ICD10PCS_DATABASE == DictOf(ICD10PCS_DATABASE_ITEMS)

MODALITY_TO_ROOT_TYPE_ITEMS ==
    << <<"CR", "0">>,
       <<"XR", "0">>,
       <<"RF", "1">>,
       <<"XA", "1">>,
       <<"CT", "2">>,
       <<"MR", "3">>,
       <<"MRI", "3">>,
       <<"US", "4">> >>

MODALITY_TO_ROOT_TYPE == DictOf(MODALITY_TO_ROOT_TYPE_ITEMS)

(*************************************************************************)
(* Python str methods                                                    *)
(*************************************************************************)
LOWERCASE == "abcdefghijklmnopqrstuvwxyz"
UPPERCASE == "ABCDEFGHIJKLMNOPQRSTUVWXYZ"
DIGITS == "0123456789"

\* The i-th character of s, as a string of length 1.
Char(s, i) == SubSeq(s, i, i)

\* The set of the characters of the string chars.
CharsOf(chars) == {Char(chars, i) : i \in 1..Len(chars)}

\* c occurs in the string chars.
CharIn(c, chars) == c \in CharsOf(chars)

\* The function that takes the i-th character of `from` to the i-th of `to`.
Translation(from, to) ==
    [c \in CharsOf(from) |-> Char(to, CHOOSE i \in 1..Len(from) : Char(from, i) = c)]

ToUpper == Translation(LOWERCASE, UPPERCASE)
ToLower == Translation(UPPERCASE, LOWERCASE)

\* s with every character in the domain of table replaced by its image.
RECURSIVE MapChars(_, _)
MapChars(s, table) ==
    IF s = "" THEN ""
    ELSE (IF Char(s, 1) \in DOMAIN table THEN table[Char(s, 1)] ELSE Char(s, 1))
         \o MapChars(SubSeq(s, 2, Len(s)), table)

\* str.upper() and str.lower()
Upper(s) == MapChars(s, ToUpper)
Lower(s) == MapChars(s, ToLower)

\* `sub in s` for strings
Contains(sub, s) ==
    \E i \in 1..(Len(s) - Len(sub) + 1) : SubSeq(s, i, i + Len(sub) - 1) = sub

\* Truth value of a str-or-None: None and "" are falsy.
Truthy(s) == s # None /\ s # ""

\* str.strip(): leading and trailing blanks removed.
RECURSIVE Strip(_)
Strip(s) ==
    IF s = "" THEN ""
    ELSE IF Char(s, 1) = " " THEN Strip(SubSeq(s, 2, Len(s)))
    ELSE IF Char(s, Len(s)) = " " THEN Strip(SubSeq(s, 1, Len(s) - 1))
    ELSE s

\* str.split(sep) for a separator of one character: the pieces between the
\* separators, in order (always at least one piece).
RECURSIVE Split(_, _)
Split(s, sep) ==
    IF ~CharIn(sep, s) THEN <<s>>
    ELSE LET i == CHOOSE j \in 1..Len(s) :
                      Char(s, j) = sep /\ \A k \in 1..(j - 1) : Char(s, k) # sep
         IN  <<SubSeq(s, 1, i - 1)>> \o Split(SubSeq(s, i + 1, Len(s)), sep)

\* The words w[1], ..., w[n] joined by single blanks.
RECURSIVE JoinWords(_)
JoinWords(w) ==
    IF w = << >> THEN ""
    ELSE IF Len(w) = 1 THEN w[1]
    ELSE w[1] \o " " \o JoinWords(Tail(w))

\* x in list
InList(x, list) == \E i \in DOMAIN list : list[i] = x

(*************************************************************************)
(* Regular expressions of the parser: \b<literal>\b                      *)
(*************************************************************************)
\* \w: a letter, a digit or the underscore.
WORD_CHARS == CharsOf(LOWERCASE) \cup CharsOf(UPPERCASE) \cup CharsOf(DIGITS) \cup {"_"}
IsWordChar(c) == c \in WORD_CHARS

\* The character at position i of text exists and is a word character.
WordAt(text, i) == i >= 1 /\ i <= Len(text) /\ IsWordChar(Char(text, i))

\* \b matches between positions p-1 and p of text.
Boundary(text, p) == WordAt(text, p - 1) # WordAt(text, p)

\* \b<literal>\b matches text at position i.
MatchAt(literal, text, i) ==
    /\ i + Len(literal) - 1 <= Len(text)
    /\ SubSeq(text, i, i + Len(literal) - 1) = literal
    /\ Boundary(text, i)
    /\ Boundary(text, i + Len(literal))

\* re.search(r'\b' + re.escape(literal) + r'\b', text) finds a match.
WordSearch(literal, text) == \E i \in 1..Len(text) : MatchAt(literal, text, i)

\* re.sub(r'\b' + re.escape(abbr) + r'\b', full, text, flags=re.IGNORECASE):
\* the leftmost matches, not overlapping, are replaced.  SubFrom is the scan
\* from position i on; abbr_lower and text_lower are abbr and text lower-cased
\* (the comparison ignores case).
RECURSIVE SubFrom(_, _, _, _, _)
SubFrom(abbr_lower, full, text, text_lower, i) ==
    IF i > Len(text) THEN ""
    ELSE IF MatchAt(abbr_lower, text_lower, i)
         THEN full \o SubFrom(abbr_lower, full, text, text_lower, i + Len(abbr_lower))
         ELSE Char(text, i) \o SubFrom(abbr_lower, full, text, text_lower, i + 1)

WordSub(abbr, full, text) == SubFrom(Lower(abbr), full, text, Lower(text), 1)

(*************************************************************************)
(* Vocabulary tables of src/medical_terminology.py (imported by          *)
(* description_parser.py, lines 7-10).  Chinese keywords are written in  *)
(* pinyin.                                                               *)
(*************************************************************************)
ABBREVIATIONS_ITEMS ==
    << <<"lt", "left">>,
       <<"rt", "right">>,
       <<"abd", "abdomen">> >>

BODY_PARTS_ITEMS ==
    << <<"chest", "Chest">>,
       <<"thorax", "Chest">>,
       <<"brain", "Brain">>,
       <<"knee", "Knee">>,
       <<"kidney", "Kidney">>,
       <<"abdomen", "Abdomen">>,
       <<"pelvis", "Pelvis">>,
       <<"cervical spine", "Cervical spine">>,
       <<"face", "Face">> >>

CHINESE_BODY_PARTS_ITEMS ==
    << <<"xiongbu", "Chest">>,
       <<"naobu", "Brain">>,
       <<"xigai", "Knee">>,
       <<"shenzang", "Kidney">>,
       <<"fubu", "Abdomen">> >>

LATERALITY_ITEMS ==
    << <<"right", "Right">>,
       <<"rt", "Right">>,
       <<"left", "Left">>,
       <<"lt", "Left">> >>

CHINESE_LATERALITY_ITEMS ==
    << <<"shuangce", "Bilateral">>,
       <<"you", "Right">>,
       <<"zuo", "Left">> >>

CONTRAST_KEYWORDS_ITEMS ==
    << <<"without contrast", "N">>,
       <<"with contrast", "Y">> >>

CHINESE_CONTRAST_ITEMS ==
    << <<"wuduibiji", "N">>,
       <<"handuibiji", "Y">> >>

(*************************************************************************)
(* DescriptionParser                                                     *)
(*************************************************************************)
\* expand_abbreviations: the loop over the abbreviation items from item i on.
RECURSIVE expand_from(_, _)
expand_from(expanded, i) ==
    IF i > Len(ABBREVIATIONS_ITEMS) THEN expanded
    ELSE expand_from(WordSub(ABBREVIATIONS_ITEMS[i][1], ABBREVIATIONS_ITEMS[i][2],
                             expanded), i + 1)

expand_abbreviations(text) == IF ~Truthy(text) THEN "" ELSE expand_from(text, 1)

\* extract_body_parts, English loop from item i on.
RECURSIVE english_body_parts(_, _, _)
english_body_parts(text_lower, body_parts, i) ==
    IF i > Len(BODY_PARTS_ITEMS) THEN body_parts
    ELSE LET keyword == BODY_PARTS_ITEMS[i][1]
             standardized == BODY_PARTS_ITEMS[i][2]
         IN  IF WordSearch(keyword, text_lower) /\ ~InList(standardized, body_parts)
             THEN english_body_parts(text_lower, Append(body_parts, standardized), i + 1)
             ELSE english_body_parts(text_lower, body_parts, i + 1)

\* The Chinese loop without its `standardized not in body_parts` test.
RECURSIVE chinese_body_parts_appending(_, _, _)
chinese_body_parts_appending(chinese_text, body_parts, i) ==
    IF i > Len(CHINESE_BODY_PARTS_ITEMS) THEN body_parts
    ELSE LET keyword == CHINESE_BODY_PARTS_ITEMS[i][1]
             standardized == CHINESE_BODY_PARTS_ITEMS[i][2]
         IN  IF Contains(keyword, chinese_text)
             THEN chinese_body_parts_appending(chinese_text,
                                               Append(body_parts, standardized), i + 1)
             ELSE chinese_body_parts_appending(chinese_text, body_parts, i + 1)

\* extract_body_parts, Chinese loop from item i on.
RECURSIVE chinese_body_parts(_, _, _)
chinese_body_parts(chinese_text, body_parts, i) ==
    IF i > Len(CHINESE_BODY_PARTS_ITEMS) THEN body_parts
    ELSE LET keyword == CHINESE_BODY_PARTS_ITEMS[i][1]
             standardized == CHINESE_BODY_PARTS_ITEMS[i][2]
         IN  IF Contains(keyword, chinese_text) /\ ~InList(standardized, body_parts)
             THEN chinese_body_parts(chinese_text, Append(body_parts, standardized), i + 1)
             ELSE chinese_body_parts(chinese_text, body_parts, i + 1)

extract_body_parts(text, chinese_text) ==
    LET english == IF Truthy(text)
                   THEN english_body_parts(Lower(expand_abbreviations(text)), << >>, 1)
                   ELSE << >>
    IN  IF Truthy(chinese_text)
        THEN chinese_body_parts(chinese_text, english, 1)
        ELSE english

\* The position of the first TRUE in the sequence hits; 0 if there is none
\* (the `for ...: if ...: break` scans of the parser).
FirstHit(hits) ==
    IF \E i \in DOMAIN hits : hits[i]
    THEN CHOOSE i \in DOMAIN hits : hits[i] /\ \A j \in 1..(i - 1) : ~hits[j]
    ELSE 0

BILATERAL_KEYWORDS == <<"bilateral", "bilat", "bil", "both">>

\* extract_laterality that looks for the right/left keywords before the
\* bilateral ones.
extract_laterality_keywords_first(text, chinese_text) ==
    LET text_lower == Lower(text)
        e == IF Truthy(text)
             THEN FirstHit([i \in DOMAIN LATERALITY_ITEMS |->
                               WordSearch(LATERALITY_ITEMS[i][1], text_lower)])
             ELSE 0
        c == FirstHit([i \in DOMAIN CHINESE_LATERALITY_ITEMS |->
                          Contains(CHINESE_LATERALITY_ITEMS[i][1], chinese_text)])
    IN  IF e # 0 THEN LATERALITY_ITEMS[e][2]
        ELSE IF /\ Truthy(text)
                /\ \E k \in DOMAIN BILATERAL_KEYWORDS :
                       WordSearch(BILATERAL_KEYWORDS[k], text_lower)
        THEN "Bilateral"
        ELSE IF Truthy(chinese_text) /\ c # 0
             THEN CHINESE_LATERALITY_ITEMS[c][2]
             ELSE None

extract_laterality(text, chinese_text) ==
    LET text_lower == Lower(text)
        e == IF Truthy(text)
             THEN FirstHit([i \in DOMAIN LATERALITY_ITEMS |->
                               WordSearch(LATERALITY_ITEMS[i][1], text_lower)])
             ELSE 0
        laterality_found == IF e # 0 THEN LATERALITY_ITEMS[e][2] ELSE None
        c == FirstHit([i \in DOMAIN CHINESE_LATERALITY_ITEMS |->
                          Contains(CHINESE_LATERALITY_ITEMS[i][1], chinese_text)])
    IN  IF /\ Truthy(text)
           /\ \E k \in DOMAIN BILATERAL_KEYWORDS :
                  WordSearch(BILATERAL_KEYWORDS[k], text_lower)
        THEN "Bilateral"
        ELSE IF Truthy(chinese_text) /\ ~Truthy(laterality_found) /\ c # 0
             THEN CHINESE_LATERALITY_ITEMS[c][2]
             ELSE laterality_found

detect_contrast_from_description(text, chinese_text) ==
    LET text_lower == Lower(text)
        e == IF Truthy(text)
             THEN FirstHit([i \in DOMAIN CONTRAST_KEYWORDS_ITEMS |->
                               Contains(CONTRAST_KEYWORDS_ITEMS[i][1], text_lower)])
             ELSE 0
        c == IF Truthy(chinese_text)
             THEN FirstHit([i \in DOMAIN CHINESE_CONTRAST_ITEMS |->
                               Contains(CHINESE_CONTRAST_ITEMS[i][1], chinese_text)])
             ELSE 0
    IN  IF e # 0 THEN CONTRAST_KEYWORDS_ITEMS[e][2]
        ELSE IF c # 0 THEN CHINESE_CONTRAST_ITEMS[c][2]
        ELSE None

parse_study_description(study_desc, chinese_desc, modality, contrast) ==
    LET body_parts == extract_body_parts(study_desc, chinese_desc)
        detected_contrast == detect_contrast_from_description(study_desc, chinese_desc)
    IN  [original_description |-> study_desc,
         chinese_description |-> chinese_desc,
         expanded_description |-> expand_abbreviations(study_desc),
         body_parts |-> body_parts,
         laterality |-> extract_laterality(study_desc, chinese_desc),
         modality |-> IF Truthy(modality) THEN Upper(modality) ELSE "",
         contrast |-> IF ~Truthy(contrast) /\ Truthy(detected_contrast)
                      THEN detected_contrast ELSE contrast,
         has_issues |-> (body_parts = << >>),
         issues |-> IF body_parts = << >> THEN <<"No body part identified">> ELSE << >>]

\* parse_modality_list: the pieces between commas, stripped and upper-cased.
parse_modality_list(modality_str) ==
    IF ~Truthy(modality_str) THEN << >>
    ELSE LET pieces == Split(modality_str, ",")
         IN  [i \in DOMAIN pieces |-> Upper(Strip(pieces[i]))]

PRIORITY_ORDER == <<"CT", "MR", "US", "XA", "RF", "CR", "BMD", "OT">>

\* identify_primary_modality scanning the list instead of the priority order:
\* the first listed modality that the priority order knows.
identify_primary_modality_first_listed(modality_list) ==
    IF modality_list = << >> THEN ""
    ELSE IF \E i \in DOMAIN modality_list : InList(modality_list[i], PRIORITY_ORDER)
         THEN modality_list[CHOOSE i \in DOMAIN modality_list :
                  /\ InList(modality_list[i], PRIORITY_ORDER)
                  /\ \A j \in 1..(i - 1) : ~InList(modality_list[j], PRIORITY_ORDER)]
         ELSE modality_list[1]

\* DescriptionParser.identify_primary_modality
identify_primary_modality(modality_list) ==
    IF modality_list = << >> THEN ""
    ELSE IF \E i \in DOMAIN PRIORITY_ORDER : InList(PRIORITY_ORDER[i], modality_list)
         THEN PRIORITY_ORDER[CHOOSE i \in DOMAIN PRIORITY_ORDER :
                  /\ InList(PRIORITY_ORDER[i], modality_list)
                  /\ \A j \in 1..(i - 1) : ~InList(PRIORITY_ORDER[j], modality_list)]
         ELSE modality_list[1]

(*************************************************************************)
(* LOINCMapper and ICD10PCSMapper: the state of the two mapper instances *)
(* (self.loinc_db, self.icd10pcs_db) and the record of the last call.    *)
(*************************************************************************)
VARIABLES
    loinc_db,       \* LOINCMapper.loinc_db
    icd10pcs_db,    \* ICD10PCSMapper.icd10pcs_db
    op,             \* the operation called last
    args,           \* its arguments
    ret,            \* what it returned
    ret_obj,        \* which dict object the returned dict is
    history,        \* the calls made on the mapper instances so far
    llm_calls       \* the invocations of the external classifier so far

\* The singleton MedicalLLMEngine and the load_model calls on it.
VARIABLES
    model,          \* MedicalLLMEngine.model
    is_loading,     \* MedicalLLMEngine.is_loading
    VLLM_AVAILABLE, \* whether the import of vllm succeeded
    calls           \* the load_model calls: position, outcome, what they started in

engine_vars == <<model, is_loading, VLLM_AVAILABLE, calls>>

\* The threads that call load_model, one call each.
MaxThreads == 3
Threads == 1..MaxThreads

\* MedicalLLMEngine.__new__: the one instance, nothing loaded, and no call
\* under way.
MedicalLLMEngine ==
    /\ model = None
    /\ is_loading = FALSE
    /\ calls = [t \in Threads |-> [pc |-> "idle", status |-> None,
                                   started_during_load |-> FALSE,
                                   started_after_load |-> FALSE]]

\* The module as imported where vllm is installed, with no call made.
llm_engine ==
    /\ MedicalLLMEngine
    /\ VLLM_AVAILABLE = TRUE

\* MedicalLLMEngine.is_loaded
is_loaded == model # None

vars == <<loinc_db, icd10pcs_db, op, args, ret, ret_obj, history, llm_calls,
          model, is_loading, VLLM_AVAILABLE, calls>>

\* LOINCMapper.normalize_modality
loinc_normalize_modality(modality) ==
    IF ~Truthy(modality) THEN ""
    ELSE LET modality_upper == Upper(modality)
         IN  Get(MODALITY_TO_METHOD, modality_upper, modality_upper)

\* ICD10PCSMapper.normalize_modality with the LOINC mapper's fallback (the
\* upper-cased input for a code the table does not know).
icd10pcs_normalize_modality_passthrough(modality) ==
    IF ~Truthy(modality) THEN ""
    ELSE LET modality_upper == Upper(modality)
         IN  Get(MODALITY_TO_ROOT_TYPE, modality_upper, modality_upper)

\* ICD10PCSMapper.normalize_modality
icd10pcs_normalize_modality(modality) ==
    IF ~Truthy(modality) THEN ""
    ELSE LET modality_upper == Upper(modality)
         IN  Get(MODALITY_TO_ROOT_TYPE, modality_upper, "")

\* contrast_values with the order for N+Y reversed (non-contrast first).
contrast_values_non_contrast_first(contrast) ==
    IF contrast = "Y" THEN <<"Y">>
    ELSE IF contrast = "N" THEN <<"N">>
    ELSE <<"N", "Y">>

\* The contrast flags find_*_code tries, in order.
contrast_values(contrast) ==
    IF contrast = "Y" THEN <<"Y">>
    ELSE IF contrast = "N" THEN <<"N">>
    ELSE IF contrast = "N+Y" THEN <<"Y", "N">>
    ELSE <<"N", "Y">>

\* probe_keys without the probe of the key with laterality.
RECURSIVE probe_keys_without_laterality(_, _, _, _, _, _)
probe_keys_without_laterality(db, body_part, modality, laterality, values, i) ==
    IF i > Len(values) THEN NoDict
    ELSE LET without_lat == <<body_part, modality, None, values[i]>>
         IN  IF without_lat \in DOMAIN db THEN db[without_lat]
             ELSE probe_keys_without_laterality(db, body_part, modality, laterality,
                                                values, i + 1)

\* The loop of find_*_code with the two loops exchanged: every key with
\* laterality (over all contrast flags) before any key without.
probe_keys_laterality_major(db, body_part, modality, laterality, values, i) ==
    LET with_lat == [j \in 1..Len(values) |-> <<body_part, modality, laterality, values[j]>>]
        without_lat == [j \in 1..Len(values) |-> <<body_part, modality, None, values[j]>>]
        keys == IF Truthy(laterality) THEN with_lat \o without_lat ELSE without_lat
        hit == FirstHit([j \in 1..Len(keys) |-> keys[j] \in DOMAIN db])
    IN  IF hit = 0 THEN NoDict ELSE db[keys[hit]]

\* The loop of find_*_code over contrast_values: for each flag the key with
\* laterality (when laterality is truthy), then the key without; the copy of
\* the first record found, or NoDict.
RECURSIVE probe_keys(_, _, _, _, _, _)
probe_keys(db, body_part, modality, laterality, values, i) ==
    IF i > Len(values) THEN NoDict
    ELSE LET with_lat == <<body_part, modality, laterality, values[i]>>
             without_lat == <<body_part, modality, None, values[i]>>
         IN  IF Truthy(laterality) /\ with_lat \in DOMAIN db THEN db[with_lat]
             ELSE IF without_lat \in DOMAIN db THEN db[without_lat]
             ELSE probe_keys(db, body_part, modality, laterality, values, i + 1)

\* LOINCMapper.find_loinc_code: the key is built from the normalized method.
find_loinc_code(body_part, modality, laterality, contrast) ==
    LET method == loinc_normalize_modality(modality)
    IN  probe_keys(loinc_db, body_part, method, laterality,
                   contrast_values(contrast), 1)

\* find_icd10pcs_code that upper-cases the modality of the key, as the LOINC
\* mapper's normalization does.
find_icd10pcs_code_upper_cased(body_part, modality, laterality, contrast) ==
    probe_keys(icd10pcs_db, body_part, IF Truthy(modality) THEN Upper(modality) ELSE "",
               laterality, contrast_values(contrast), 1)

\* ICD10PCSMapper.find_icd10pcs_code: root_type is computed and not used,
\* the key is built from the modality as passed.
find_icd10pcs_code(body_part, modality, laterality, contrast) ==
    LET root_type == icd10pcs_normalize_modality(modality)
    IN  probe_keys(icd10pcs_db, body_part, modality, laterality,
                   contrast_values(contrast), 1)

(*************************************************************************)
(* Object identity of the dicts find_*_code hands out.  The record a     *)
(* code table stores under a key is one dict object; dict.copy() builds  *)
(* a new one.                                                            *)
(*************************************************************************)
NoKey == << >>
NoObject == << >>
NewObject == <<"new">>
TableObject(system, key) == <<system, key>>

\* A return of the stored dict itself, where the code returns its copy.
dict_same_object(object) == object

\* dict.copy(): a new dict object (its items are those of the original).
dict_copy(object) == NewObject

\* The key at which the loop of find_*_code finds its record, or NoKey.
RECURSIVE probe_hit(_, _, _, _, _, _)
probe_hit(db, body_part, modality, laterality, values, i) ==
    IF i > Len(values) THEN NoKey
    ELSE LET with_lat == <<body_part, modality, laterality, values[i]>>
             without_lat == <<body_part, modality, None, values[i]>>
         IN  IF Truthy(laterality) /\ with_lat \in DOMAIN db THEN with_lat
             ELSE IF without_lat \in DOMAIN db THEN without_lat
             ELSE probe_hit(db, body_part, modality, laterality, values, i + 1)

\* The dict object find_loinc_code returns: the copy of the stored record.
find_loinc_code_object(body_part, modality, laterality, contrast) ==
    LET key == probe_hit(loinc_db, body_part, loinc_normalize_modality(modality),
                         laterality, contrast_values(contrast), 1)
    IN  IF key = NoKey THEN NoObject ELSE dict_copy(TableObject("LOINC", key))

\* find_icd10pcs_code_object returning the stored record itself.
find_icd10pcs_code_object_uncopied(body_part, modality, laterality, contrast) ==
    LET key == probe_hit(icd10pcs_db, body_part, modality, laterality,
                         contrast_values(contrast), 1)
    IN  IF key = NoKey THEN NoObject ELSE TableObject("ICD-10-PCS", key)

\* The dict object find_icd10pcs_code returns: the copy of the stored record.
find_icd10pcs_code_object(body_part, modality, laterality, contrast) ==
    LET key == probe_hit(icd10pcs_db, body_part, modality, laterality,
                         contrast_values(contrast), 1)
    IN  IF key = NoKey THEN NoObject ELSE dict_copy(TableObject("ICD-10-PCS", key))

\* _filter_body_parts (the same in both mappers)
EXCLUDE_LIST == <<"Face", "Bone">>

\* _filter_body_parts without the "keep original list" branch.
filter_body_parts_emptying(body_parts) ==
    SelectSeq(body_parts, LAMBDA part : ~InList(part, EXCLUDE_LIST))

filter_body_parts(body_parts) ==
    LET filtered == SelectSeq(body_parts, LAMBDA part : ~InList(part, EXCLUDE_LIST))
    IN  IF filtered = << >> /\ body_parts # << >> THEN body_parts ELSE filtered

\* _select_best_loinc / _select_best_icd10pcs (the same in both mappers);
\* codes is a non-empty list of <<body_part, info>> pairs.
PRIORITY_KEYWORDS ==
    <<"Cervical spine", "Thoracic spine", "Lumbar spine", "Lumbosacral spine",
      "Coronary artery", "Carotid artery", "Renal artery",
      "Left", "Right", "Bilateral">>

\* The first pair, in list order, whose body part contains the keyword.
KeywordHits(keyword, codes) ==
    {i \in DOMAIN codes : Contains(Lower(keyword), Lower(codes[i][1]))}

Min(S) == CHOOSE x \in S : \A y \in S : x <= y

\* _select_best_* with the two loops exchanged: the first candidate, in list
\* order, whose body part contains any of the keywords.
select_best_candidate_major(codes) ==
    IF Len(codes) = 1 THEN codes[1]
    ELSE IF \E k \in DOMAIN PRIORITY_KEYWORDS : KeywordHits(PRIORITY_KEYWORDS[k], codes) # {}
    THEN codes[Min(UNION {KeywordHits(PRIORITY_KEYWORDS[k], codes) :
                              k \in DOMAIN PRIORITY_KEYWORDS})]
    ELSE codes[Min({i \in DOMAIN codes :
                       \A j \in DOMAIN codes : Len(codes[j][1]) <= Len(codes[i][1])})]

select_best(codes) ==
    IF Len(codes) = 1 THEN codes[1]
    ELSE IF \E k \in DOMAIN PRIORITY_KEYWORDS : KeywordHits(PRIORITY_KEYWORDS[k], codes) # {}
    THEN LET k == Min({j \in DOMAIN PRIORITY_KEYWORDS :
                           KeywordHits(PRIORITY_KEYWORDS[j], codes) # {}})
         IN  codes[Min(KeywordHits(PRIORITY_KEYWORDS[k], codes))]
    \* sorted(..., key=len, reverse=True)[0]: the first of the longest
    ELSE codes[Min({i \in DOMAIN codes :
                       \A j \in DOMAIN codes : Len(codes[j][1]) <= Len(codes[i][1])})]

\* A dict access info[field] on a record without the field raises KeyError,
\* which map_study_* does not catch.
KeyError == [raised |-> "KeyError"]
Raised(result) == "raised" \in DOMAIN result

\* The primary modality both map_study_* compute from their arguments.
\* The primary modality without the fallback to the declared modality.
resolve_primary_modality_without_fallback(modality, combine_modality) ==
    identify_primary_modality(IF Truthy(combine_modality)
                              THEN parse_modality_list(combine_modality)
                              ELSE IF Truthy(modality) THEN <<modality>> ELSE << >>)

resolve_primary_modality(modality, combine_modality) ==
    LET modality_list == IF Truthy(combine_modality)
                         THEN parse_modality_list(combine_modality)
                         ELSE IF Truthy(modality) THEN <<modality>> ELSE << >>
        primary_modality == identify_primary_modality(modality_list)
    IN  IF ~Truthy(primary_modality) THEN modality ELSE primary_modality

\* The "additional validation" both map_study_* end with; system is "LOINC"
\* or "ICD-10-PCS".
\* The "additional validation" that reports the combined modality and the
\* N+Y contrast only for a result without a specific code.
additional_validation_unless_high(result, filtered_body_parts, combine_modality, contrast, system) ==
    LET no_body_part ==
            IF filtered_body_parts = << >>
            THEN [result EXCEPT !.issues = Append(@, "No body part identified"),
                                !.has_issues = TRUE]
            ELSE result
        multiple ==
            IF /\ Truthy(combine_modality) /\ Contains(",", combine_modality)
               /\ result.mapping_confidence # "High"
            THEN [no_body_part EXCEPT !.issues = Append(@,
                    "Multiple modalities - used primary modality for " \o system \o " mapping")]
            ELSE no_body_part
    IN  IF contrast = "N+Y" /\ result.mapping_confidence # "High"
        THEN [multiple EXCEPT !.issues = Append(@,
                "Both contrast and non-contrast - " \o system \o " code may need separate entries")]
        ELSE multiple

additional_validation(result, filtered_body_parts, combine_modality, contrast, system) ==
    LET no_body_part ==
            IF filtered_body_parts = << >>
            THEN [result EXCEPT !.issues = Append(@, "No body part identified"),
                                !.has_issues = TRUE]
            ELSE result
        multiple ==
            IF Truthy(combine_modality) /\ Contains(",", combine_modality)
            THEN [no_body_part EXCEPT !.issues = Append(@,
                    "Multiple modalities - used primary modality for " \o system \o " mapping")]
            ELSE no_body_part
    IN  IF contrast = "N+Y"
        THEN [multiple EXCEPT !.issues = Append(@,
                "Both contrast and non-contrast - " \o system \o " code may need separate entries")]
        ELSE multiple

\* loinc_codes_of that stops after the first body part.
loinc_codes_of_first_only(body_parts, primary_modality, laterality, contrast, i) ==
    IF i > Len(body_parts) THEN << >>
    ELSE LET loinc_info == find_loinc_code(body_parts[i], primary_modality,
                                           laterality, contrast)
         IN  IF loinc_info # NoDict THEN <<<<body_parts[i], loinc_info>>>> ELSE << >>

\* map_study_to_loinc, the loop over the filtered body parts: the list of
\* <<body_part, loinc_info>> pairs of the body parts find_loinc_code resolves.
RECURSIVE loinc_codes_of(_, _, _, _, _)
loinc_codes_of(body_parts, primary_modality, laterality, contrast, i) ==
    IF i > Len(body_parts) THEN << >>
    ELSE LET loinc_info == find_loinc_code(body_parts[i], primary_modality,
                                           laterality, contrast)
             rest == loinc_codes_of(body_parts, primary_modality, laterality,
                                    contrast, i + 1)
         IN  IF loinc_info # NoDict THEN <<<<body_parts[i], loinc_info>>>> \o rest
             ELSE rest

\* loinc_outcome whose generic fallback does not store the generic code.
loinc_outcome_generic_without_code(result, loinc_codes, primary_modality) ==
    LET loinc_info == select_best(loinc_codes)[2]
        method == loinc_normalize_modality(primary_modality)
    IN  IF loinc_codes # << >>
        THEN IF {"code", "long_name", "component", "method"} \subseteq DOMAIN loinc_info
             THEN [result EXCEPT
                     !.loinc_code = loinc_info.code,
                     !.loinc_long_name = loinc_info.long_name,
                     !.loinc_component = loinc_info.component,
                     !.loinc_method = loinc_info.method,
                     !.mapping_confidence = "High",
                     !.issues = IF Len(loinc_codes) > 1
                                THEN Append(@, "Multiple LOINC codes possible") ELSE @,
                     !.has_issues = IF Len(loinc_codes) > 1 THEN TRUE ELSE @]
             ELSE KeyError
        ELSE IF method \in DOMAIN GENERIC_LOINC_PATTERNS
        THEN [result EXCEPT
                !.loinc_long_name = "Generic " \o method \o " study",
                !.loinc_method = method,
                !.mapping_confidence = "Low",
                !.issues = Append(@, "Using generic LOINC code - specific code not found"),
                !.has_issues = TRUE]
        ELSE [result EXCEPT
                !.issues = Append(@, "No LOINC code found"),
                !.has_issues = TRUE,
                !.mapping_confidence = "None"]

\* loinc_outcome that reports ambiguity only for more than two candidates.
loinc_outcome_ambiguity_over_two(result, loinc_codes, primary_modality) ==
    LET loinc_info == select_best(loinc_codes)[2]
        method == loinc_normalize_modality(primary_modality)
    IN  IF loinc_codes # << >>
        THEN IF {"code", "long_name", "component", "method"} \subseteq DOMAIN loinc_info
             THEN [result EXCEPT
                     !.loinc_code = loinc_info.code,
                     !.loinc_long_name = loinc_info.long_name,
                     !.loinc_component = loinc_info.component,
                     !.loinc_method = loinc_info.method,
                     !.mapping_confidence = "High",
                     !.issues = IF Len(loinc_codes) > 2
                                THEN Append(@, "Multiple LOINC codes possible") ELSE @,
                     !.has_issues = IF Len(loinc_codes) > 2 THEN TRUE ELSE @]
             ELSE KeyError
        ELSE IF method \in DOMAIN GENERIC_LOINC_PATTERNS
        THEN [result EXCEPT
                !.loinc_code = GENERIC_LOINC_PATTERNS[method],
                !.loinc_long_name = "Generic " \o method \o " study",
                !.loinc_method = method,
                !.mapping_confidence = "Low",
                !.issues = Append(@, "Using generic LOINC code - specific code not found"),
                !.has_issues = TRUE]
        ELSE [result EXCEPT
                !.issues = Append(@, "No LOINC code found"),
                !.has_issues = TRUE,
                !.mapping_confidence = "None"]

\* loinc_outcome with the generic fallback classified High.
loinc_outcome_generic_high(result, loinc_codes, primary_modality) ==
    LET loinc_info == select_best(loinc_codes)[2]
        method == loinc_normalize_modality(primary_modality)
    IN  IF loinc_codes # << >>
        THEN IF {"code", "long_name", "component", "method"} \subseteq DOMAIN loinc_info
             THEN [result EXCEPT
                     !.loinc_code = loinc_info.code,
                     !.loinc_long_name = loinc_info.long_name,
                     !.loinc_component = loinc_info.component,
                     !.loinc_method = loinc_info.method,
                     !.mapping_confidence = "High",
                     !.issues = IF Len(loinc_codes) > 1
                                THEN Append(@, "Multiple LOINC codes possible") ELSE @,
                     !.has_issues = IF Len(loinc_codes) > 1 THEN TRUE ELSE @]
             ELSE KeyError
        ELSE IF method \in DOMAIN GENERIC_LOINC_PATTERNS
        THEN [result EXCEPT
                !.loinc_code = GENERIC_LOINC_PATTERNS[method],
                !.loinc_long_name = "Generic " \o method \o " study",
                !.loinc_method = method,
                !.mapping_confidence = "High",
                !.issues = Append(@, "Using generic LOINC code - specific code not found"),
                !.has_issues = TRUE]
        ELSE [result EXCEPT
                !.issues = Append(@, "No LOINC code found"),
                !.has_issues = TRUE,
                !.mapping_confidence = "None"]

\* map_study_to_loinc, the branch on loinc_codes: the selected code with
\* confidence High, else the generic pattern of the method with confidence
\* Low, else confidence None.
loinc_outcome(result, loinc_codes, primary_modality) ==
    LET loinc_info == select_best(loinc_codes)[2]
        method == loinc_normalize_modality(primary_modality)
    IN  IF loinc_codes # << >>
        THEN IF {"code", "long_name", "component", "method"} \subseteq DOMAIN loinc_info
             THEN [result EXCEPT
                     !.loinc_code = loinc_info.code,
                     !.loinc_long_name = loinc_info.long_name,
                     !.loinc_component = loinc_info.component,
                     !.loinc_method = loinc_info.method,
                     !.mapping_confidence = "High",
                     !.issues = IF Len(loinc_codes) > 1
                                THEN Append(@, "Multiple LOINC codes possible") ELSE @,
                     !.has_issues = IF Len(loinc_codes) > 1 THEN TRUE ELSE @]
             ELSE KeyError
        ELSE IF method \in DOMAIN GENERIC_LOINC_PATTERNS
        THEN [result EXCEPT
                !.loinc_code = GENERIC_LOINC_PATTERNS[method],
                !.loinc_long_name = "Generic " \o method \o " study",
                !.loinc_method = method,
                !.mapping_confidence = "Low",
                !.issues = Append(@, "Using generic LOINC code - specific code not found"),
                !.has_issues = TRUE]
        ELSE [result EXCEPT
                !.issues = Append(@, "No LOINC code found"),
                !.has_issues = TRUE,
                !.mapping_confidence = "None"]

\* map_study_to_loinc from the parsed description, the primary modality and
\* the filtered body parts on.
loinc_study_result(value_code, modality, study_desc, chinese_desc, contrast, combine_modality, parsed, primary_modality, filtered_body_parts) ==
    LET result == [value_code |-> value_code,
                   modality |-> modality,
                   combine_modality |-> combine_modality,
                   primary_modality |-> primary_modality,
                   study_description |-> study_desc,
                   chinese_description |-> chinese_desc,
                   expanded_description |-> parsed.expanded_description,
                   body_parts |-> filtered_body_parts,
                   laterality |-> parsed.laterality,
                   contrast |-> contrast,
                   loinc_code |-> None,
                   loinc_long_name |-> None,
                   loinc_component |-> None,
                   loinc_method |-> None,
                   mapping_confidence |-> "Unknown",
                   issues |-> parsed.issues,
                   has_issues |-> parsed.has_issues]
        loinc_codes == loinc_codes_of(filtered_body_parts, primary_modality,
                                      parsed.laterality, contrast, 1)
        outcome == loinc_outcome(result, loinc_codes, primary_modality)
    IN  IF Raised(outcome) THEN outcome
        ELSE additional_validation(outcome, filtered_body_parts, combine_modality,
                                   contrast, "LOINC")

\* map_study_to_loinc that takes the contrast from the parsed description.
map_study_to_loinc_parsed_contrast(value_code, modality, study_desc, chinese_desc, contrast, combine_modality) ==
    loinc_study_result(value_code, modality, study_desc, chinese_desc,
        parse_study_description(study_desc, chinese_desc, modality, contrast).contrast,
        combine_modality,
        parse_study_description(study_desc, chinese_desc, modality, contrast),
        resolve_primary_modality(modality, combine_modality),
        filter_body_parts(
            parse_study_description(study_desc, chinese_desc, modality, contrast).body_parts))

\* LOINCMapper.map_study_to_loinc
map_study_to_loinc(value_code, modality, study_desc, chinese_desc, contrast, combine_modality) ==
    loinc_study_result(value_code, modality, study_desc, chinese_desc, contrast,
        combine_modality,
        parse_study_description(study_desc, chinese_desc, modality, contrast),
        resolve_primary_modality(modality, combine_modality),
        filter_body_parts(
            parse_study_description(study_desc, chinese_desc, modality, contrast).body_parts))

\* map_study_to_icd10pcs, the loop over the filtered body parts.
RECURSIVE icd10pcs_codes_of(_, _, _, _, _)
icd10pcs_codes_of(body_parts, primary_modality, laterality, contrast, i) ==
    IF i > Len(body_parts) THEN << >>
    ELSE LET icd10pcs_info == find_icd10pcs_code(body_parts[i], primary_modality,
                                                 laterality, contrast)
             rest == icd10pcs_codes_of(body_parts, primary_modality, laterality,
                                       contrast, i + 1)
         IN  IF icd10pcs_info # NoDict THEN <<<<body_parts[i], icd10pcs_info>>>> \o rest
             ELSE rest

\* icd10pcs_outcome that reports Low when no body part resolves.
icd10pcs_outcome_low(result, icd10pcs_codes) ==
    LET icd10pcs_info == select_best(icd10pcs_codes)[2]
    IN  IF icd10pcs_codes # << >>
        THEN IF {"code", "description", "section", "body_system", "root_type",
                 "body_part"} \subseteq DOMAIN icd10pcs_info
             THEN [result EXCEPT
                     !.icd10pcs_code = icd10pcs_info.code,
                     !.icd10pcs_description = icd10pcs_info.description,
                     !.icd10pcs_section = icd10pcs_info.section,
                     !.icd10pcs_body_system = icd10pcs_info.body_system,
                     !.icd10pcs_root_type = icd10pcs_info.root_type,
                     !.icd10pcs_body_part = icd10pcs_info.body_part,
                     !.mapping_confidence = "High",
                     !.issues = IF Len(icd10pcs_codes) > 1
                                THEN Append(@, "Multiple ICD-10-PCS codes possible") ELSE @,
                     !.has_issues = IF Len(icd10pcs_codes) > 1 THEN TRUE ELSE @]
             ELSE KeyError
        ELSE [result EXCEPT
                !.issues = Append(@, "No ICD-10-PCS code found"),
                !.has_issues = TRUE,
                !.mapping_confidence = "Low"]

\* icd10pcs_outcome that leaves the confidence unset when no body part resolves.
icd10pcs_outcome_unclassified(result, icd10pcs_codes) ==
    LET icd10pcs_info == select_best(icd10pcs_codes)[2]
    IN  IF icd10pcs_codes # << >>
        THEN IF {"code", "description", "section", "body_system", "root_type",
                 "body_part"} \subseteq DOMAIN icd10pcs_info
             THEN [result EXCEPT
                     !.icd10pcs_code = icd10pcs_info.code,
                     !.icd10pcs_description = icd10pcs_info.description,
                     !.icd10pcs_section = icd10pcs_info.section,
                     !.icd10pcs_body_system = icd10pcs_info.body_system,
                     !.icd10pcs_root_type = icd10pcs_info.root_type,
                     !.icd10pcs_body_part = icd10pcs_info.body_part,
                     !.mapping_confidence = "High",
                     !.issues = IF Len(icd10pcs_codes) > 1
                                THEN Append(@, "Multiple ICD-10-PCS codes possible") ELSE @,
                     !.has_issues = IF Len(icd10pcs_codes) > 1 THEN TRUE ELSE @]
             ELSE KeyError
        ELSE [result EXCEPT
                !.issues = Append(@, "No ICD-10-PCS code found"),
                !.has_issues = TRUE]

\* map_study_to_icd10pcs, the branch on icd10pcs_codes: the selected code with
\* confidence High, else confidence None.
icd10pcs_outcome(result, icd10pcs_codes) ==
    LET icd10pcs_info == select_best(icd10pcs_codes)[2]
    IN  IF icd10pcs_codes # << >>
        THEN IF {"code", "description", "section", "body_system", "root_type",
                 "body_part"} \subseteq DOMAIN icd10pcs_info
             THEN [result EXCEPT
                     !.icd10pcs_code = icd10pcs_info.code,
                     !.icd10pcs_description = icd10pcs_info.description,
                     !.icd10pcs_section = icd10pcs_info.section,
                     !.icd10pcs_body_system = icd10pcs_info.body_system,
                     !.icd10pcs_root_type = icd10pcs_info.root_type,
                     !.icd10pcs_body_part = icd10pcs_info.body_part,
                     !.mapping_confidence = "High",
                     !.issues = IF Len(icd10pcs_codes) > 1
                                THEN Append(@, "Multiple ICD-10-PCS codes possible") ELSE @,
                     !.has_issues = IF Len(icd10pcs_codes) > 1 THEN TRUE ELSE @]
             ELSE KeyError
        ELSE [result EXCEPT
                !.issues = Append(@, "No ICD-10-PCS code found"),
                !.has_issues = TRUE,
                !.mapping_confidence = "None"]

\* map_study_to_icd10pcs from the parsed description, the primary modality
\* and the filtered body parts on.
icd10pcs_study_result(value_code, modality, study_desc, chinese_desc, contrast, combine_modality, parsed, primary_modality, filtered_body_parts) ==
    LET result == [value_code |-> value_code,
                   modality |-> modality,
                   combine_modality |-> combine_modality,
                   primary_modality |-> primary_modality,
                   study_description |-> study_desc,
                   chinese_description |-> chinese_desc,
                   expanded_description |-> parsed.expanded_description,
                   body_parts |-> filtered_body_parts,
                   laterality |-> parsed.laterality,
                   contrast |-> contrast,
                   icd10pcs_code |-> None,
                   icd10pcs_description |-> None,
                   icd10pcs_section |-> None,
                   icd10pcs_body_system |-> None,
                   icd10pcs_root_type |-> None,
                   icd10pcs_body_part |-> None,
                   mapping_confidence |-> "Unknown",
                   issues |-> parsed.issues,
                   has_issues |-> parsed.has_issues]
        icd10pcs_codes == icd10pcs_codes_of(filtered_body_parts, primary_modality,
                                            parsed.laterality, contrast, 1)
        outcome == icd10pcs_outcome(result, icd10pcs_codes)
    IN  IF Raised(outcome) THEN outcome
        ELSE additional_validation(outcome, filtered_body_parts, combine_modality,
                                   contrast, "ICD-10-PCS")

\* ICD10PCSMapper.map_study_to_icd10pcs
map_study_to_icd10pcs(value_code, modality, study_desc, chinese_desc, contrast, combine_modality) ==
    icd10pcs_study_result(value_code, modality, study_desc, chinese_desc, contrast,
        combine_modality,
        parse_study_description(study_desc, chinese_desc, modality, contrast),
        resolve_primary_modality(modality, combine_modality),
        filter_body_parts(
            parse_study_description(study_desc, chinese_desc, modality, contrast).body_parts))

(*************************************************************************)
(* map_batch                                                             *)
(*************************************************************************)
\* The call of map_study_to_loinc in the loop of map_batch: each argument is
\* read from the study dict with the default ''.
loinc_map_study_dict(study) ==
    map_study_to_loinc(Get(study, "value_code", ""),
                       Get(study, "modality", ""),
                       Get(study, "Study Description", ""),
                       Get(study, "Chinese Study Description", ""),
                       Get(study, "Contrast", ""),
                       Get(study, "Combine Modality", ""))

icd10pcs_map_study_dict(study) ==
    map_study_to_icd10pcs(Get(study, "value_code", ""),
                          Get(study, "modality", ""),
                          Get(study, "Study Description", ""),
                          Get(study, "Chinese Study Description", ""),
                          Get(study, "Contrast", ""),
                          Get(study, "Combine Modality", ""))

\* The list the loop of map_batch builds, or what the first raising call
\* raised.
BatchResults(results) ==
    IF \E i \in DOMAIN results : Raised(results[i])
    THEN results[CHOOSE i \in DOMAIN results :
                    Raised(results[i]) /\ \A j \in 1..(i - 1) : ~Raised(results[j])]
    ELSE results

\* map_batch with the results in the reverse order of the studies.
loinc_map_batch_reversed(studies) ==
    BatchResults([i \in 1..Len(studies) |->
                     loinc_map_study_dict(studies[Len(studies) + 1 - i])])

\* LOINCMapper.map_batch: the result of each study is appended in turn.
loinc_map_batch(studies) ==
    BatchResults([i \in 1..Len(studies) |-> loinc_map_study_dict(studies[i])])

\* ICD10PCSMapper.map_batch
icd10pcs_map_batch(studies) ==
    BatchResults([i \in 1..Len(studies) |-> icd10pcs_map_study_dict(studies[i])])

(*************************************************************************)
(* src/src/llm_mapper.py: LLMMapper (the classifier behind the external  *)
(* LLM) and HybridMapper (rule-based mapping with the LLM as fallback).  *)
(* What the LLM answers is an input: the call raises, or it returns a    *)
(* text that parses to a JSON object, or a text that does not parse.     *)
(*************************************************************************)
\* x if x else ''
OrEmpty(x) == IF Truthy(x) THEN x ELSE ""

\* sep.join(list)
RECURSIVE Join(_, _)
Join(list, sep) ==
    IF list = << >> THEN ""
    ELSE IF Len(list) = 1 THEN list[1]
    ELSE list[1] \o sep \o Join(Tail(list), sep)

\* str.title() from position i on: a letter that follows a letter is
\* lower-cased, any other letter is upper-cased.
RECURSIVE TitleFrom(_, _, _)
TitleFrom(s, i, after_letter) ==
    IF i > Len(s) THEN ""
    ELSE LET c == Char(s, i)
             letter == CharIn(c, LOWERCASE) \/ CharIn(c, UPPERCASE)
             cased == IF after_letter
                      THEN (IF c \in DOMAIN ToLower THEN ToLower[c] ELSE c)
                      ELSE (IF c \in DOMAIN ToUpper THEN ToUpper[c] ELSE c)
         IN  cased \o TitleFrom(s, i + 1, letter)

Title(s) == TitleFrom(s, 1, FALSE)

\* LLMMapper._parse_json_response on what _call_llm returned.
parse_json_response(response) ==
    IF "json" \in DOMAIN response THEN response.json
    ELSE [error |-> "Failed to parse LLM response", raw_response |-> response.text]

\* LLMMapper.map_to_loinc whose error record reads as an answer: the code
\* field holds the error text and the confidence is "low".
llm_map_to_loinc_error_as_answer(response, provider) ==
    IF "raises" \in DOMAIN response
    THEN [error |-> response.raises, llm_used |-> TRUE, loinc_code |-> response.raises,
          confidence |-> "low"]
    ELSE ("llm_used" :> TRUE) @@ ("provider" :> provider) @@ parse_json_response(response)

\* LLMMapper.map_to_loinc: the parsed answer with llm_used and provider
\* set, or the error record if the call raised.
llm_map_to_loinc(response, provider) ==
    IF "raises" \in DOMAIN response
    THEN [error |-> response.raises, llm_used |-> TRUE, loinc_code |-> None,
          confidence |-> "none"]
    ELSE ("llm_used" :> TRUE) @@ ("provider" :> provider) @@ parse_json_response(response)

\* LLMMapper.map_to_icd10pcs
llm_map_to_icd10pcs(response, provider) ==
    IF "raises" \in DOMAIN response
    THEN [error |-> response.raises, llm_used |-> TRUE, icd10pcs_code |-> None,
          confidence |-> "none"]
    ELSE ("llm_used" :> TRUE) @@ ("provider" :> provider) @@ parse_json_response(response)

\* HybridMapper.__init__: llm_mapper is built only if the fallback is on
\* and stays None if LLMMapper(llm_config) raises.
HybridMapper(use_llm_fallback, llm_constructs, confidence_threshold) ==
    [use_llm_fallback |-> use_llm_fallback,
     confidence_threshold |-> confidence_threshold,
     llm_mapper |-> IF use_llm_fallback /\ llm_constructs THEN "LLMMapper" ELSE None]

confidence_levels == [High |-> 3, Medium |-> 2, Low |-> 1, None |-> 0, Unknown |-> 0]
threshold_levels == [High |-> 3, Medium |-> 2, Low |-> 1, None |-> 0]

\* _should_use_llm with <= for <.
should_use_llm_at_threshold(self, confidence) ==
    IF ~self.use_llm_fallback \/ self.llm_mapper = None THEN FALSE
    ELSE Get(confidence_levels, confidence, 0)
             <= Get(threshold_levels, self.confidence_threshold, 1)

\* HybridMapper._should_use_llm
should_use_llm(self, confidence) ==
    IF ~self.use_llm_fallback \/ self.llm_mapper = None THEN FALSE
    ELSE Get(confidence_levels, confidence, 0)
             < Get(threshold_levels, self.confidence_threshold, 1)

AttributeError == [raised |-> "AttributeError"]

\* The issues that do not contain the text.
IssuesWithout(issues, text) ==
    LET Keep(issue) == ~Contains(text, issue)
    IN  SelectSeq(issues, Keep)

\* HybridMapper.map_to_loinc from the rule-based result on: the result
\* returned and the calls of the LLM mapper made.
hybrid_loinc_from(self, rule, study_desc, chinese_desc, modality, contrast, response) ==
    IF Raised(rule) THEN [result |-> rule, llm_calls |-> << >>]
    ELSE
    LET result == ("llm_used" :> FALSE) @@ ("mapping_method" :> "rule-based") @@ rule
    IN  IF ~should_use_llm(self, Get(result, "mapping_confidence", "None"))
        THEN [result |-> result, llm_calls |-> << >>]
        ELSE
        LET llm_result == llm_map_to_loinc(response, "anthropic")
            call == [method |-> "map_to_loinc",
                     study_description |-> study_desc,
                     chinese_description |-> chinese_desc,
                     modality |-> modality,
                     contrast |-> contrast,
                     rule_confidence |-> result.mapping_confidence]
            issues == IssuesWithout(Get(result, "issues", << >>), "No LOINC code found")
        IN  [llm_calls |-> <<call>>,
             result |->
                IF /\ Truthy(Get(llm_result, "loinc_code", None))
                   /\ Get(llm_result, "confidence", None) # "none"
                THEN IF Get(llm_result, "confidence", "Medium") = None
                     THEN AttributeError
                     ELSE ("loinc_code" :> Get(llm_result, "loinc_code", None))
                          @@ ("loinc_long_name" :> Get(llm_result, "loinc_name", None))
                          @@ ("loinc_component" :> Get(llm_result, "component", None))
                          @@ ("loinc_method" :> Get(llm_result, "method", None))
                          @@ ("mapping_confidence" :>
                                 Title(Get(llm_result, "confidence", "Medium")))
                          @@ ("llm_used" :> TRUE)
                          @@ ("mapping_method" :> "llm")
                          @@ ("llm_reasoning" :> Get(llm_result, "reasoning", ""))
                          @@ ("issues" :> issues)
                          @@ ("has_issues" :> IF issues = << >> THEN FALSE
                                              ELSE result.has_issues)
                          @@ result
                ELSE result]

\* HybridMapper.map_to_icd10pcs from the rule-based result on.
hybrid_icd10pcs_from(self, rule, study_desc, chinese_desc, modality, contrast, response) ==
    IF Raised(rule) THEN [result |-> rule, llm_calls |-> << >>]
    ELSE
    LET result == ("llm_used" :> FALSE) @@ ("mapping_method" :> "rule-based") @@ rule
    IN  IF ~should_use_llm(self, Get(result, "mapping_confidence", "None"))
        THEN [result |-> result, llm_calls |-> << >>]
        ELSE
        LET llm_result == llm_map_to_icd10pcs(response, "anthropic")
            call == [method |-> "map_to_icd10pcs",
                     study_description |-> study_desc,
                     chinese_description |-> chinese_desc,
                     modality |-> modality,
                     contrast |-> contrast,
                     rule_confidence |-> result.mapping_confidence]
            issues == IssuesWithout(Get(result, "issues", << >>), "No ICD-10-PCS code found")
        IN  [llm_calls |-> <<call>>,
             result |->
                IF /\ Truthy(Get(llm_result, "icd10pcs_code", None))
                   /\ Get(llm_result, "confidence", None) # "none"
                THEN IF Get(llm_result, "confidence", "Medium") = None
                     THEN AttributeError
                     ELSE ("icd10pcs_code" :> Get(llm_result, "icd10pcs_code", None))
                          @@ ("icd10pcs_description" :> Get(llm_result, "description", None))
                          @@ ("icd10pcs_section" :> Get(llm_result, "section", None))
                          @@ ("icd10pcs_body_system" :> Get(llm_result, "body_system", None))
                          @@ ("icd10pcs_root_type" :> Get(llm_result, "root_type", None))
                          @@ ("icd10pcs_body_part" :> Get(llm_result, "body_part", None))
                          @@ ("mapping_confidence" :>
                                 Title(Get(llm_result, "confidence", "Medium")))
                          @@ ("llm_used" :> TRUE)
                          @@ ("mapping_method" :> "llm")
                          @@ ("llm_reasoning" :> Get(llm_result, "reasoning", ""))
                          @@ ("issues" :> issues)
                          @@ ("has_issues" :> IF issues = << >> THEN FALSE
                                              ELSE result.has_issues)
                          @@ result
                ELSE result]

\* The elements of a list, as a set.
SetOf(list) == {list[i] : i \in DOMAIN list}

\* HybridMapper.map_dual, the merge of the two hybrid results.  issues is
\* list(set(...)): a list without duplicates in an order Python does not
\* fix, kept here as the set of its elements.
map_dual_merge(study, loinc_result, icd10pcs_result) ==
    IF Raised(loinc_result) THEN loinc_result
    ELSE IF Raised(icd10pcs_result) THEN icd10pcs_result
    ELSE [value_code |-> study.value_code,
          modality |-> study.modality,
          study_description |-> study.study_desc,
          chinese_description |-> study.chinese_desc,
          contrast |-> study.contrast,
          combine_modality |-> study.combine_modality,
          primary_modality |-> Get(loinc_result, "primary_modality", None),
          body_parts |-> Get(loinc_result, "body_parts", None),
          laterality |-> Get(loinc_result, "laterality", None),
          loinc_code |-> Get(loinc_result, "loinc_code", None),
          loinc_long_name |-> Get(loinc_result, "loinc_long_name", None),
          loinc_component |-> Get(loinc_result, "loinc_component", None),
          loinc_method |-> Get(loinc_result, "loinc_method", None),
          loinc_confidence |-> Get(loinc_result, "mapping_confidence", None),
          loinc_llm_used |-> Get(loinc_result, "llm_used", None),
          icd10pcs_code |-> Get(icd10pcs_result, "icd10pcs_code", None),
          icd10pcs_description |-> Get(icd10pcs_result, "icd10pcs_description", None),
          icd10pcs_section |-> Get(icd10pcs_result, "icd10pcs_section", None),
          icd10pcs_body_system |-> Get(icd10pcs_result, "icd10pcs_body_system", None),
          icd10pcs_root_type |-> Get(icd10pcs_result, "icd10pcs_root_type", None),
          icd10pcs_confidence |-> Get(icd10pcs_result, "mapping_confidence", None),
          icd10pcs_llm_used |-> Get(icd10pcs_result, "llm_used", None),
          issues |-> SetOf(Get(loinc_result, "issues", << >>)
                               \o Get(icd10pcs_result, "issues", << >>)),
          has_issues |-> Get(loinc_result, "has_issues", FALSE)
                             \/ Get(icd10pcs_result, "has_issues", FALSE)]

(*************************************************************************)
(* src/rad_dual_mapper.py: the output table of the dual command line.    *)
(*************************************************************************)
\* The printable ASCII characters in code order (without the double quote,
\* the backslash and the backquote).
ASCII == " !#$%&'()*+,-./0123456789:;<=>?@ABCDEFGHIJKLMNOPQRSTUVWXYZ[]^_abcdefghijklmnopqrstuvwxyz{|}~"
Ord(c) == CHOOSE i \in 1..Len(ASCII) : Char(ASCII, i) = c

\* s < t for strings (code point by code point, a proper prefix is less).
RECURSIVE StrLess(_, _)
StrLess(s, t) ==
    IF t = "" THEN FALSE
    ELSE IF s = "" THEN TRUE
    ELSE IF Char(s, 1) = Char(t, 1)
         THEN StrLess(SubSeq(s, 2, Len(s)), SubSeq(t, 2, Len(t)))
         ELSE Ord(Char(s, 1)) < Ord(Char(t, 1))

\* sorted(strings) for a set of strings
RECURSIVE Sorted(_)
Sorted(strings) ==
    IF strings = {} THEN << >>
    ELSE LET least == CHOOSE s \in strings :
                          \A t \in strings : s = t \/ StrLess(s, t)
         IN  <<least>> \o Sorted(strings \ {least})

\* The set all_issues of create_dual_output_dataframe.
all_issues(loinc_result, icd10pcs_result) ==
    {"LOINC: " \o issue : issue \in SetOf(loinc_result.issues)}
        \cup {"ICD-10-PCS: " \o issue : issue \in SetOf(icd10pcs_result.issues)}

\* One row of create_dual_output_dataframe.
dual_output_row(loinc_result, icd10pcs_result) ==
    LET issues == all_issues(loinc_result, icd10pcs_result)
        has_any_issues == loinc_result.has_issues \/ icd10pcs_result.has_issues
    IN  ("value_code" :> loinc_result.value_code)
        @@ ("modality" :> loinc_result.modality)
        @@ ("Study Description" :> loinc_result.study_description)
        @@ ("Chinese Study Description" :> loinc_result.chinese_description)
        @@ ("Contrast" :> loinc_result.contrast)
        @@ ("Combine Modality" :> loinc_result.combine_modality)
        @@ ("Primary Modality" :> loinc_result.primary_modality)
        @@ ("Expanded Description" :> loinc_result.expanded_description)
        @@ ("Body Parts" :> Join(loinc_result.body_parts, ", "))
        @@ ("Laterality" :> OrEmpty(loinc_result.laterality))
        @@ ("LOINC Code" :> OrEmpty(loinc_result.loinc_code))
        @@ ("LOINC Name" :> OrEmpty(loinc_result.loinc_long_name))
        @@ ("LOINC Component" :> OrEmpty(loinc_result.loinc_component))
        @@ ("LOINC Method" :> OrEmpty(loinc_result.loinc_method))
        @@ ("LOINC Confidence" :> loinc_result.mapping_confidence)
        @@ ("ICD-10-PCS Code" :> OrEmpty(icd10pcs_result.icd10pcs_code))
        @@ ("ICD-10-PCS Description" :> OrEmpty(icd10pcs_result.icd10pcs_description))
        @@ ("ICD-10-PCS Section" :> OrEmpty(icd10pcs_result.icd10pcs_section))
        @@ ("ICD-10-PCS Body System" :> OrEmpty(icd10pcs_result.icd10pcs_body_system))
        @@ ("ICD-10-PCS Root Type" :> OrEmpty(icd10pcs_result.icd10pcs_root_type))
        @@ ("ICD-10-PCS Confidence" :> icd10pcs_result.mapping_confidence)
        @@ ("Has Issues" :> IF has_any_issues THEN "Yes" ELSE "No")
        @@ ("Issues" :> IF issues # {} THEN Join(Sorted(issues), "; ") ELSE "")

\* create_dual_output_dataframe: one row per pair of results, in order.
create_dual_output_dataframe(loinc_results, icd10pcs_results) ==
    [i \in 1..(IF Len(loinc_results) < Len(icd10pcs_results)
               THEN Len(loinc_results) ELSE Len(icd10pcs_results)) |->
        dual_output_row(loinc_results[i], icd10pcs_results[i])]

(*************************************************************************)
(* Inputs                                                                *)
(*************************************************************************)
\* The longest study description, in words.
MaxWords == 2

SeqsUpTo(S, n) == UNION {[1..k -> S] : k \in 0..n}

\* Every body part, modality and laterality a key of either table names.
TableKeys == DOMAIN LOINC_DATABASE \cup DOMAIN ICD10PCS_DATABASE
TableBodyParts == {k[1] : k \in TableKeys}
TableModalities == {k[2] : k \in TableKeys}
TableLateralities == {k[3] : k \in TableKeys}

\* Arguments of a direct find_*_code call.
FindCalls ==
    [kind : {"find"},
     body_part : TableBodyParts \cup {"Tail"},
     modality : TableModalities \cup {"", "ct", "PT"},
     laterality : TableLateralities \cup {""},
     contrast : {"Y", "N", "N+Y", "", "X"}]

\* Study records.
\* Descriptions are the word sequences of at most MaxWords words, the
\* descriptions of the documented scenarios and examples (test_loinc_mapping)
\* and two descriptions that name the excluded body part Face.
DescriptionWords == {"Chest", "Lt", "knee", "Abdomen"}
ScenarioDescriptions ==
    {"Chest PA view", "Brain without contrast", "Lt knee", "Kidney bilateral",
     "Abdomen", "Pelvis", "Cervical spine"}
Descriptions ==
    {JoinWords(w) : w \in SeqsUpTo(DescriptionWords, MaxWords)}
        \cup ScenarioDescriptions \cup {"Face", "Chest face"}
ChineseDescriptions == {"", "zuoxigai"}
Modalities == {"", "CR", "CT", "MR", "US", "PT", "ct"}
Contrasts == {"", "Y", "N", "N+Y"}
CombineModalities == {"", "MR,CT", " us ,PT"}

Studies ==
    [kind : {"study"},
     value_code : {"RAD001"},
     modality : Modalities,
     study_desc : Descriptions,
     chinese_desc : ChineseDescriptions,
     contrast : Contrasts,
     combine_modality : CombineModalities]

\* Batches: sequences of at most MaxBatch study dicts, with the keys
\* ExcelProcessor.prepare_studies gives them; one dict lacks keys and one is
\* empty (map_batch reads every key with a default).
MaxBatch == 2
StudyDict(value_code, modality, study_desc, chinese_desc, contrast, combine_modality) ==
    ("value_code" :> value_code) @@ ("modality" :> modality)
        @@ ("Study Description" :> study_desc)
        @@ ("Chinese Study Description" :> chinese_desc)
        @@ ("Contrast" :> contrast) @@ ("Combine Modality" :> combine_modality)
BatchStudies ==
    {StudyDict("RAD001", "CR", "Chest", "", "N", ""),
     StudyDict("RAD002", "CT", "Abdomen", "", "N+Y", "MR,CT"),
     ("value_code" :> "RAD003") @@ ("modality" :> "US")
         @@ ("Study Description" :> "Kidney bilateral"),
     << >>}
Batches == [kind : {"batch"}, studies : SeqsUpTo(BatchStudies, MaxBatch)]

\* The calls of a session on the two mapper instances: at most MaxCalls calls,
\* each one of these.
MaxCalls == 3
SessionFinds ==
    {[kind |-> "find", body_part |-> "Chest", modality |-> "CR",
      laterality |-> None, contrast |-> "N"],
     [kind |-> "find", body_part |-> "Brain", modality |-> "CT",
      laterality |-> None, contrast |-> "N"]}
SessionStudies ==
    {[kind |-> "study", value_code |-> "RAD001", modality |-> "CR",
      study_desc |-> "Chest", chinese_desc |-> "", contrast |-> "N",
      combine_modality |-> ""],
     [kind |-> "study", value_code |-> "RAD002", modality |-> "CT",
      study_desc |-> "Brain", chinese_desc |-> "", contrast |-> "N",
      combine_modality |-> ""]}
SessionBatches ==
    {[kind |-> "batch",
      studies |-> <<StudyDict("RAD001", "CR", "Chest", "", "N", ""),
                    StudyDict("RAD002", "CT", "Brain", "", "N", "")>>]}

\* Arguments of a direct normalize_modality call.
NormalizeModalities ==
    DOMAIN MODALITY_TO_METHOD \cup DOMAIN MODALITY_TO_ROOT_TYPE
        \cup {"", None, "ct", "Mr", "bmd", "PT", "pt", " CT", "NM"}
NormalizeCalls == [kind : {"normalize"}, modality : NormalizeModalities]

\* The longest modality list given to identify_primary_modality.
MaxModalities == 2
ListModalities == {"CT", "MR", "CR", "OT", "PT", "NM", "ct"}
ModalityLists ==
    [kind : {"modality_list"}, modality_list : SeqsUpTo(ListModalities, MaxModalities)]

\* Arguments of a direct extract_body_parts call.
BodyPartTexts ==
    {"", None, "Chest", "Chest thorax", "thorax knee Chest", "Lt knee Abdomen",
     "Face chest", "Brain"}
ChineseBodyPartTexts == {"", None, "xiongbu", "xigaixiongbu", "fubunaobu", "shenzang"}
TextCalls == [kind : {"texts"}, text : BodyPartTexts, chinese_text : ChineseBodyPartTexts]

\* Candidate lists given to _select_best_*: at most MaxCandidates
\* <<body_part, info>> pairs (the callers pass a non-empty list); the info of
\* a pair tells its position in the list.
MaxCandidates == 3
CandidateBodyParts ==
    {"Knee", "Hand", "Chest", "Left knee", "Cervical spine", "LUMBAR SPINE",
     "left renal artery", "Bilateral hips"}
CandidateInfos == <<[code |-> "code-1"], [code |-> "code-2"], [code |-> "code-3"],
                    [code |-> "code-4"]>>
CandidateLists ==
    [kind : {"candidates"},
     codes : {[i \in DOMAIN names |-> <<names[i], CandidateInfos[i]>>] :
                 names \in SeqsUpTo(CandidateBodyParts, MaxCandidates) \ {<< >>}}]

\* Body part lists given to _filter_body_parts: at most MaxBodyParts names.
MaxBodyParts == 3
FilterNames == {"Face", "Bone", "Chest", "Knee"}
BodyPartLists ==
    [kind : {"body_parts"}, body_parts : SeqsUpTo(FilterNames, MaxBodyParts)]

\* Studies that vary the declared modality (empty, null, lower case, unknown),
\* the combined modality (empty, commas only, one modality, several) and the
\* contrast, with descriptions that do and do not name a contrast.
DetailModalities == {"", None, "CT", "CR", "ct", "PT"}
DetailDescriptions ==
    {"", "Chest", "Chest with contrast", "Brain without contrast", "Lt knee"}
DetailChineseDescriptions == {"", "handuibiji"}
DetailCombineModalities == {"", ",", "PT", "MR,PT", "pt, nm", " us ,CT"}
DetailStudies ==
    [kind : {"study"},
     value_code : {"RAD001"},
     modality : DetailModalities,
     study_desc : DetailDescriptions,
     chinese_desc : DetailChineseDescriptions,
     contrast : Contrasts,
     combine_modality : DetailCombineModalities]

\* Arguments of a direct extract_laterality call.
LateralityTexts ==
    {"", None, "Knee", "Lt knee", "left and right knee", "Kidney bilateral",
     "both Lt knee", "BIL hips rt", "bilevel left", "leftover"}
ChineseLateralityTexts == {"", None, "zuoxigai", "youxigai", "shuangcexigai", "xigai"}
LateralityCalls ==
    [kind : {"laterality"}, text : LateralityTexts, chinese_text : ChineseLateralityTexts]

\* Calls of the hybrid mapper: a study, the configuration of the
\* HybridMapper, and what the LLM would answer for either code system.
HybridStudy(value_code, modality, study_desc, contrast, combine_modality) ==
    [kind |-> "study", value_code |-> value_code, modality |-> modality,
     study_desc |-> study_desc, chinese_desc |-> "", contrast |-> contrast,
     combine_modality |-> combine_modality]
HybridStudies ==
    {HybridStudy("RAD001", "CT", "Brain without contrast", "N", ""),
     HybridStudy("RAD002", "CR", "Cervical spine", "N", ""),
     HybridStudy("RAD003", "PT", "Chest", "N", ""),
     HybridStudy("RAD004", "CT", "", "N+Y", "MR,CT"),
     HybridStudy("RAD005", "CT", "Abdomen", "N+Y", "MR,CT"),
     HybridStudy("RAD006", "US", "Tail", "", "")}
ConfidenceThresholds == {"High", "Medium", "Low", "None"}
LlmLoincResponses ==
    {[raises |-> "LLM client not initialized. Check API key configuration."],
     [text |-> "I cannot map this study."],
     [json |-> [loinc_code |-> "24725-4", loinc_name |-> "CT Head",
                component |-> "Head", method |-> "CT", confidence |-> "high",
                reasoning |-> "head CT"]],
     [json |-> [loinc_code |-> "24725-4", loinc_name |-> "CT Head",
                component |-> "Head", method |-> "CT", confidence |-> "low",
                reasoning |-> "a guess"]],
     [json |-> [loinc_code |-> "24725-4", loinc_name |-> "CT Head"]],
     [json |-> [loinc_code |-> "24725-4", confidence |-> "none"]],
     [json |-> [loinc_code |-> "24725-4", confidence |-> None]],
     [json |-> [loinc_code |-> None, confidence |-> "none",
                reasoning |-> "not an imaging study"]]}
LlmIcd10pcsResponses ==
    {[raises |-> "LLM client not initialized. Check API key configuration."],
     [text |-> "I cannot map this study."],
     [json |-> [icd10pcs_code |-> "BW20ZZZ", description |-> "CT Chest",
                section |-> "B", body_system |-> "W", root_type |-> "2",
                body_part |-> "0", confidence |-> "medium",
                reasoning |-> "chest CT"]],
     [json |-> [icd10pcs_code |-> "BW20ZZZ", confidence |-> "none"]],
     [json |-> [icd10pcs_code |-> "", confidence |-> "high"]],
     [json |-> [icd10pcs_code |-> "BW20ZZZ", confidence |-> None]]}
HybridCalls ==
    [kind : {"hybrid"},
     study : HybridStudies,
     use_llm_fallback : BOOLEAN,
     llm_constructs : BOOLEAN,
     confidence_threshold : ConfidenceThresholds,
     llm_loinc_response : LlmLoincResponses,
     llm_icd10pcs_response : LlmIcd10pcsResponses]

(*************************************************************************)
(* The state machine: a caller holds the arguments of one call (args),   *)
(* and each public operation is one action that runs on them.            *)
(*************************************************************************)
Init ==
    /\ loinc_db = LOINC_DATABASE
    /\ icd10pcs_db = ICD10PCS_DATABASE
    /\ op = "init"
    /\ args \in FindCalls \cup Studies \cup Batches \cup NormalizeCalls
                 \cup ModalityLists \cup TextCalls
    /\ ret = NoDict
    /\ ret_obj = NoObject
    /\ history = << >>
    /\ llm_calls = << >>
    /\ llm_engine

FindLoincCode ==
    /\ op = "init"
    /\ args.kind = "find"
    /\ op' = "find_loinc_code"
    /\ ret' = find_loinc_code(args.body_part, args.modality, args.laterality,
                              args.contrast)
    /\ ret_obj' = find_loinc_code_object(args.body_part, args.modality,
                                         args.laterality, args.contrast)
    /\ UNCHANGED <<loinc_db, icd10pcs_db, args, history, llm_calls>>
    /\ UNCHANGED engine_vars

FindIcd10pcsCode ==
    /\ op = "init"
    /\ args.kind = "find"
    /\ op' = "find_icd10pcs_code"
    /\ ret' = find_icd10pcs_code(args.body_part, args.modality, args.laterality,
                                 args.contrast)
    /\ ret_obj' = find_icd10pcs_code_object(args.body_part, args.modality,
                                            args.laterality, args.contrast)
    /\ UNCHANGED <<loinc_db, icd10pcs_db, args, history, llm_calls>>
    /\ UNCHANGED engine_vars

MapStudyToLoinc ==
    /\ op = "init"
    /\ args.kind = "study"
    /\ op' = "map_study_to_loinc"
    /\ ret' = map_study_to_loinc(args.value_code, args.modality, args.study_desc,
                                 args.chinese_desc, args.contrast,
                                 args.combine_modality)
    /\ ret_obj' = NewObject
    /\ UNCHANGED <<loinc_db, icd10pcs_db, args, history, llm_calls>>
    /\ UNCHANGED engine_vars

MapStudyToIcd10pcs ==
    /\ op = "init"
    /\ args.kind = "study"
    /\ op' = "map_study_to_icd10pcs"
    /\ ret' = map_study_to_icd10pcs(args.value_code, args.modality, args.study_desc,
                                    args.chinese_desc, args.contrast,
                                    args.combine_modality)
    /\ ret_obj' = NewObject
    /\ UNCHANGED <<loinc_db, icd10pcs_db, args, history, llm_calls>>
    /\ UNCHANGED engine_vars

\* map_batch runs on the batch in args.
LoincMapBatch ==
    /\ op = "init"
    /\ args.kind = "batch"
    /\ op' = "loinc_map_batch"
    /\ ret' = loinc_map_batch(args.studies)
    /\ ret_obj' = NewObject
    /\ UNCHANGED <<loinc_db, icd10pcs_db, args, history, llm_calls>>
    /\ UNCHANGED engine_vars

Icd10pcsMapBatch ==
    /\ op = "init"
    /\ args.kind = "batch"
    /\ op' = "icd10pcs_map_batch"
    /\ ret' = icd10pcs_map_batch(args.studies)
    /\ ret_obj' = NewObject
    /\ UNCHANGED <<loinc_db, icd10pcs_db, args, history, llm_calls>>
    /\ UNCHANGED engine_vars

LoincNormalizeModality ==
    /\ op = "init"
    /\ args.kind = "normalize"
    /\ op' = "loinc_normalize_modality"
    /\ ret' = loinc_normalize_modality(args.modality)
    /\ ret_obj' = NewObject
    /\ UNCHANGED <<loinc_db, icd10pcs_db, args, history, llm_calls>>
    /\ UNCHANGED engine_vars

Icd10pcsNormalizeModality ==
    /\ op = "init"
    /\ args.kind = "normalize"
    /\ op' = "icd10pcs_normalize_modality"
    /\ ret' = icd10pcs_normalize_modality(args.modality)
    /\ ret_obj' = NewObject
    /\ UNCHANGED <<loinc_db, icd10pcs_db, args, history, llm_calls>>
    /\ UNCHANGED engine_vars

IdentifyPrimaryModality ==
    /\ op = "init"
    /\ args.kind = "modality_list"
    /\ op' = "identify_primary_modality"
    /\ ret' = identify_primary_modality(args.modality_list)
    /\ ret_obj' = NewObject
    /\ UNCHANGED <<loinc_db, icd10pcs_db, args, history, llm_calls>>
    /\ UNCHANGED engine_vars

ExtractBodyParts ==
    /\ op = "init"
    /\ args.kind = "texts"
    /\ op' = "extract_body_parts"
    /\ ret' = extract_body_parts(args.text, args.chinese_text)
    /\ ret_obj' = NewObject
    /\ UNCHANGED <<loinc_db, icd10pcs_db, args, history, llm_calls>>
    /\ UNCHANGED engine_vars

Next ==
    \/ FindLoincCode
    \/ FindIcd10pcsCode
    \/ MapStudyToLoinc
    \/ MapStudyToIcd10pcs
    \/ LoincMapBatch
    \/ Icd10pcsMapBatch
    \/ LoincNormalizeModality
    \/ Icd10pcsNormalizeModality
    \/ IdentifyPrimaryModality
    \/ ExtractBodyParts

Spec == Init /\ [][Next]_vars

(*************************************************************************)
(* The probe loop on its own: find_*_code on a mapper whose table holds  *)
(* any combination of the four keys of one body part and modality (with  *)
(* and without laterality, contrast flag Y and N), and on the shipped    *)
(* tables.                                                               *)
(*************************************************************************)
ProbeKeys == {<<"Knee", "CT", laterality, flag>> : laterality \in {None, "Left"},
                                                  flag \in {"Y", "N"}}
ProbeRecord(key) ==
    [code |-> "K-" \o (IF key[3] = None THEN "Any" ELSE key[3]) \o "-" \o key[4]]
ProbeTables == {[key \in keys |-> ProbeRecord(key)] : keys \in SUBSET ProbeKeys}
ProbeCalls ==
    [kind : {"find"},
     body_part : {"Knee"},
     modality : {"CT", "ct"},
     laterality : {None, "", "Left", "Right"},
     contrast : {"Y", "N", "N+Y", "", "X"}]

ProbeInit ==
    /\ \/ /\ loinc_db = LOINC_DATABASE
          /\ icd10pcs_db = ICD10PCS_DATABASE
          /\ args \in FindCalls
       \/ /\ loinc_db \in ProbeTables
          /\ icd10pcs_db = loinc_db
          /\ args \in ProbeCalls
    /\ op = "init"
    /\ ret = NoDict
    /\ ret_obj = NoObject
    /\ history = << >>
    /\ llm_calls = << >>
    /\ llm_engine

ProbeNext ==
    \/ FindLoincCode
    \/ FindIcd10pcsCode

ProbeSpec == ProbeInit /\ [][ProbeNext]_vars

(*************************************************************************)
(* The callers of the rule-based mappers: the hybrid mapper of           *)
(* src/src/llm_mapper.py and the dual command line of                    *)
(* src/rad_dual_mapper.py.  history holds the calls a caller made on the *)
(* rule-based mappers and the results it merged, llm_calls the calls it  *)
(* made on the LLM mapper.                                               *)
(*************************************************************************)
CallersInit ==
    /\ loinc_db = LOINC_DATABASE
    /\ icd10pcs_db = ICD10PCS_DATABASE
    /\ op = "init"
    /\ args \in HybridCalls \cup HybridStudies \cup Batches
    /\ ret = NoDict
    /\ ret_obj = NoObject
    /\ history = << >>
    /\ llm_calls = << >>
    /\ llm_engine

HybridMapToLoinc ==
    /\ op = "init"
    /\ args.kind = "hybrid"
    /\ op' = "hybrid_map_to_loinc"
    /\ \E rule \in {map_study_to_loinc(args.study.value_code, args.study.modality,
                                       args.study.study_desc, args.study.chinese_desc,
                                       args.study.contrast,
                                       args.study.combine_modality)} :
       \E run \in {hybrid_loinc_from(
                       HybridMapper(args.use_llm_fallback, args.llm_constructs,
                                    args.confidence_threshold),
                       rule, args.study.study_desc, args.study.chinese_desc,
                       args.study.modality, args.study.contrast,
                       args.llm_loinc_response)} :
           /\ ret' = run.result
           /\ llm_calls' = run.llm_calls
           /\ history' = <<[op |-> "map_study_to_loinc", args |-> args.study,
                            ret |-> rule]>>
    /\ ret_obj' = NewObject
    /\ UNCHANGED <<loinc_db, icd10pcs_db, args>>
    /\ UNCHANGED engine_vars

HybridMapToIcd10pcs ==
    /\ op = "init"
    /\ args.kind = "hybrid"
    /\ op' = "hybrid_map_to_icd10pcs"
    /\ \E rule \in {map_study_to_icd10pcs(args.study.value_code, args.study.modality,
                                          args.study.study_desc,
                                          args.study.chinese_desc, args.study.contrast,
                                          args.study.combine_modality)} :
       \E run \in {hybrid_icd10pcs_from(
                       HybridMapper(args.use_llm_fallback, args.llm_constructs,
                                    args.confidence_threshold),
                       rule, args.study.study_desc, args.study.chinese_desc,
                       args.study.modality, args.study.contrast,
                       args.llm_icd10pcs_response)} :
           /\ ret' = run.result
           /\ llm_calls' = run.llm_calls
           /\ history' = <<[op |-> "map_study_to_icd10pcs", args |-> args.study,
                            ret |-> rule]>>
    /\ ret_obj' = NewObject
    /\ UNCHANGED <<loinc_db, icd10pcs_db, args>>
    /\ UNCHANGED engine_vars

\* HybridMapper.map_dual: map_to_loinc, then map_to_icd10pcs (not reached if
\* map_to_loinc raised), then the merge.
HybridMapDual ==
    /\ op = "init"
    /\ args.kind = "hybrid"
    /\ op' = "hybrid_map_dual"
    /\ \E loinc_rule \in {map_study_to_loinc(args.study.value_code, args.study.modality,
                                             args.study.study_desc,
                                             args.study.chinese_desc,
                                             args.study.contrast,
                                             args.study.combine_modality)} :
       \E icd10pcs_rule \in {map_study_to_icd10pcs(args.study.value_code,
                                                   args.study.modality,
                                                   args.study.study_desc,
                                                   args.study.chinese_desc,
                                                   args.study.contrast,
                                                   args.study.combine_modality)} :
       \E self \in {HybridMapper(args.use_llm_fallback, args.llm_constructs,
                                 args.confidence_threshold)} :
       \E loinc_run \in {hybrid_loinc_from(self, loinc_rule, args.study.study_desc,
                                           args.study.chinese_desc, args.study.modality,
                                           args.study.contrast,
                                           args.llm_loinc_response)} :
       \E icd10pcs_run \in {hybrid_icd10pcs_from(self, icd10pcs_rule,
                                                 args.study.study_desc,
                                                 args.study.chinese_desc,
                                                 args.study.modality,
                                                 args.study.contrast,
                                                 args.llm_icd10pcs_response)} :
       \E loinc_calls \in {<<[op |-> "map_study_to_loinc", args |-> args.study,
                               ret |-> loinc_rule],
                              [op |-> "hybrid_map_to_loinc", args |-> args.study,
                               ret |-> loinc_run.result]>>} :
       \E icd10pcs_calls \in {<<[op |-> "map_study_to_icd10pcs", args |-> args.study,
                                  ret |-> icd10pcs_rule],
                                 [op |-> "hybrid_map_to_icd10pcs", args |-> args.study,
                                  ret |-> icd10pcs_run.result]>>} :
           /\ ret' = map_dual_merge(args.study, loinc_run.result, icd10pcs_run.result)
           /\ llm_calls' = IF Raised(loinc_run.result) THEN loinc_run.llm_calls
                           ELSE loinc_run.llm_calls \o icd10pcs_run.llm_calls
           /\ history' = IF Raised(loinc_run.result) THEN loinc_calls
                         ELSE loinc_calls \o icd10pcs_calls
    /\ ret_obj' = NewObject
    /\ UNCHANGED <<loinc_db, icd10pcs_db, args>>
    /\ UNCHANGED engine_vars

\* main of rad_dual_mapper.py on the studies of the input file: both
\* map_batch calls, then create_dual_output_dataframe on their results.
CreateDualOutputDataframe ==
    /\ op = "init"
    /\ args.kind = "batch"
    /\ op' = "create_dual_output_dataframe"
    /\ \E loinc_results \in {loinc_map_batch(args.studies)} :
       \E icd10pcs_results \in {icd10pcs_map_batch(args.studies)} :
           /\ ret' = create_dual_output_dataframe(loinc_results, icd10pcs_results)
           /\ history' = <<[op |-> "loinc_map_batch", args |-> args.studies,
                            ret |-> loinc_results],
                           [op |-> "icd10pcs_map_batch", args |-> args.studies,
                            ret |-> icd10pcs_results]>>
    /\ ret_obj' = NewObject
    /\ UNCHANGED <<loinc_db, icd10pcs_db, args, llm_calls>>
    /\ UNCHANGED engine_vars

CallersNext ==
    \/ HybridMapToLoinc
    \/ HybridMapToIcd10pcs
    \/ HybridMapDual
    \/ CreateDualOutputDataframe
    \/ MapStudyToLoinc
    \/ MapStudyToIcd10pcs

CallersSpec == CallersInit /\ [][CallersNext]_vars

(*************************************************************************)
(* A session: a caller makes a sequence of calls on one LOINCMapper and  *)
(* one ICD10PCSMapper instance, and may overwrite a field of a record a  *)
(* find_*_code call handed it.  history keeps every call with what it    *)
(* returned.                                                             *)
(*************************************************************************)
FindOps == {"find_loinc_code", "find_icd10pcs_code"}

IsCall(h) == h.op # "caller_overwrites"

\* The caller has made fewer than MaxCalls calls.
CanCall == Len(SelectSeq(history, IsCall)) < MaxCalls

SessionInit ==
    /\ loinc_db = LOINC_DATABASE
    /\ icd10pcs_db = ICD10PCS_DATABASE
    /\ op = "session"
    /\ args = NoDict
    /\ ret = NoDict
    /\ ret_obj = NoObject
    /\ history = << >>
    /\ llm_calls = << >>
    /\ llm_engine

SessionFindLoincCode ==
    /\ CanCall
    /\ \E a \in SessionFinds :
           /\ op' = "find_loinc_code"
           /\ args' = a
           /\ ret' = find_loinc_code(a.body_part, a.modality, a.laterality, a.contrast)
           /\ ret_obj' = find_loinc_code_object(a.body_part, a.modality, a.laterality, a.contrast)
    /\ history' = Append(history, [op |-> op', args |-> args', ret |-> ret'])
    /\ UNCHANGED <<loinc_db, icd10pcs_db, llm_calls>>
    /\ UNCHANGED engine_vars

SessionFindIcd10pcsCode ==
    /\ CanCall
    /\ \E a \in SessionFinds :
           /\ op' = "find_icd10pcs_code"
           /\ args' = a
           /\ ret' = find_icd10pcs_code(a.body_part, a.modality, a.laterality, a.contrast)
           /\ ret_obj' = find_icd10pcs_code_object(a.body_part, a.modality, a.laterality, a.contrast)
    /\ history' = Append(history, [op |-> op', args |-> args', ret |-> ret'])
    /\ UNCHANGED <<loinc_db, icd10pcs_db, llm_calls>>
    /\ UNCHANGED engine_vars

SessionMapStudyToLoinc ==
    /\ CanCall
    /\ \E a \in SessionStudies :
           /\ op' = "map_study_to_loinc"
           /\ args' = a
           /\ ret' = map_study_to_loinc(a.value_code, a.modality, a.study_desc,
                                     a.chinese_desc, a.contrast, a.combine_modality)
           /\ ret_obj' = NewObject
    /\ history' = Append(history, [op |-> op', args |-> args', ret |-> ret'])
    /\ UNCHANGED <<loinc_db, icd10pcs_db, llm_calls>>
    /\ UNCHANGED engine_vars

SessionMapStudyToIcd10pcs ==
    /\ CanCall
    /\ \E a \in SessionStudies :
           /\ op' = "map_study_to_icd10pcs"
           /\ args' = a
           /\ ret' = map_study_to_icd10pcs(a.value_code, a.modality, a.study_desc,
                                     a.chinese_desc, a.contrast, a.combine_modality)
           /\ ret_obj' = NewObject
    /\ history' = Append(history, [op |-> op', args |-> args', ret |-> ret'])
    /\ UNCHANGED <<loinc_db, icd10pcs_db, llm_calls>>
    /\ UNCHANGED engine_vars

SessionLoincMapBatch ==
    /\ CanCall
    /\ \E a \in SessionBatches :
           /\ op' = "loinc_map_batch"
           /\ args' = a
           /\ ret' = loinc_map_batch(a.studies)
           /\ ret_obj' = NewObject
    /\ history' = Append(history, [op |-> op', args |-> args', ret |-> ret'])
    /\ UNCHANGED <<loinc_db, icd10pcs_db, llm_calls>>
    /\ UNCHANGED engine_vars

SessionIcd10pcsMapBatch ==
    /\ CanCall
    /\ \E a \in SessionBatches :
           /\ op' = "icd10pcs_map_batch"
           /\ args' = a
           /\ ret' = icd10pcs_map_batch(a.studies)
           /\ ret_obj' = NewObject
    /\ history' = Append(history, [op |-> op', args |-> args', ret |-> ret'])
    /\ UNCHANGED <<loinc_db, icd10pcs_db, llm_calls>>
    /\ UNCHANGED engine_vars

\* The caller assigns to the code field of the record the last find_*_code
\* call returned.  The assignment changes the dict object the caller holds;
\* were that the dict a code table stores, the table's record would change
\* with it.
CallerOverwrites ==
    /\ op \in FindOps
    /\ ret # NoDict
    /\ op' = "caller_overwrites"
    /\ ret' = [ret EXCEPT !.code = "overwritten"]
    /\ loinc_db' = IF ret_obj[1] = "LOINC"
                   THEN [loinc_db EXCEPT ![ret_obj[2]].code = "overwritten"]
                   ELSE loinc_db
    /\ icd10pcs_db' = IF ret_obj[1] = "ICD-10-PCS"
                      THEN [icd10pcs_db EXCEPT ![ret_obj[2]].code = "overwritten"]
                      ELSE icd10pcs_db
    /\ history' = Append(history, [op |-> "caller_overwrites", args |-> args,
                                   ret |-> ret'])
    /\ UNCHANGED <<args, ret_obj, llm_calls>>
    /\ UNCHANGED engine_vars

SessionNext ==
    \/ SessionFindLoincCode
    \/ SessionFindIcd10pcsCode
    \/ SessionMapStudyToLoinc
    \/ SessionMapStudyToIcd10pcs
    \/ SessionLoincMapBatch
    \/ SessionIcd10pcsMapBatch
    \/ CallerOverwrites

SessionSpec == SessionInit /\ [][SessionNext]_vars

(*************************************************************************)
(* The helpers of the mappers and of the parser on their own, and        *)
(* map_study_* on studies that vary the modality, the combined modality  *)
(* and the contrast.                                                     *)
(*************************************************************************)
HelperInit ==
    /\ loinc_db = LOINC_DATABASE
    /\ icd10pcs_db = ICD10PCS_DATABASE
    /\ op = "init"
    /\ args \in CandidateLists \cup BodyPartLists \cup DetailStudies
                 \cup LateralityCalls
    /\ ret = NoDict
    /\ ret_obj = NoObject
    /\ history = << >>
    /\ llm_calls = << >>
    /\ llm_engine

SelectBest ==
    /\ op = "init"
    /\ args.kind = "candidates"
    /\ op' = "select_best"
    /\ ret' = select_best(args.codes)
    /\ ret_obj' = NewObject
    /\ UNCHANGED <<loinc_db, icd10pcs_db, args, history, llm_calls>>
    /\ UNCHANGED engine_vars

FilterBodyParts ==
    /\ op = "init"
    /\ args.kind = "body_parts"
    /\ op' = "filter_body_parts"
    /\ ret' = filter_body_parts(args.body_parts)
    /\ ret_obj' = NewObject
    /\ UNCHANGED <<loinc_db, icd10pcs_db, args, history, llm_calls>>
    /\ UNCHANGED engine_vars

ExtractLaterality ==
    /\ op = "init"
    /\ args.kind = "laterality"
    /\ op' = "extract_laterality"
    /\ ret' = extract_laterality(args.text, args.chinese_text)
    /\ ret_obj' = NewObject
    /\ UNCHANGED <<loinc_db, icd10pcs_db, args, history, llm_calls>>
    /\ UNCHANGED engine_vars

ParseStudyDescription ==
    /\ op = "init"
    /\ args.kind = "study"
    /\ op' = "parse_study_description"
    /\ ret' = parse_study_description(args.study_desc, args.chinese_desc,
                                      args.modality, args.contrast)
    /\ ret_obj' = NewObject
    /\ UNCHANGED <<loinc_db, icd10pcs_db, args, history, llm_calls>>
    /\ UNCHANGED engine_vars

HelperNext ==
    \/ SelectBest
    \/ FilterBodyParts
    \/ ExtractLaterality
    \/ ParseStudyDescription
    \/ MapStudyToLoinc
    \/ MapStudyToIcd10pcs

HelperSpec == HelperInit /\ [][HelperNext]_vars

(*************************************************************************)
(* The singleton LLM engine of src/src/llm_engine.py.  The web API runs  *)
(* each POST /api/llm/load as one load_model call on an executor thread  *)
(* (web_api.py:80-93); the calls share the one instance, and a thread    *)
(* can be preempted between any two statements.  calls[t].pc is the      *)
(* statement call t executes next.                                       *)
(*************************************************************************)
EngineCallsInit ==
    /\ loinc_db = LOINC_DATABASE
    /\ icd10pcs_db = ICD10PCS_DATABASE
    /\ op = "init"
    /\ args = NoDict
    /\ ret = NoDict
    /\ ret_obj = NoObject
    /\ history = << >>
    /\ llm_calls = << >>

EngineInit ==
    /\ EngineCallsInit
    /\ MedicalLLMEngine
    /\ VLLM_AVAILABLE \in BOOLEAN

\* A load is in progress: some call other than t has set is_loading and has
\* not yet left load_model.
LoadInProgress(t) ==
    \E u \in Threads \ {t} : calls[u].pc \in {"construct", "except", "finally"}

\* Some call other than t has returned "loaded".
LoadCompleted(t) ==
    \E u \in Threads \ {t} : calls[u].pc = "done" /\ calls[u].status = "loaded"

Returns(t, status) ==
    [calls EXCEPT ![t].pc = "done", ![t].status = status]

\* load_model, lines 39-40: if self.is_loaded(): return already_loaded.  The
\* call notes what it started in.
LoadModelIsLoaded ==
    \E t \in Threads :
        /\ calls[t].pc = "idle"
        /\ \E started \in {[calls EXCEPT ![t].started_during_load = LoadInProgress(t),
                                         ![t].started_after_load =
                                             LoadCompleted(t) /\ ~LoadInProgress(t)]} :
               calls' = IF is_loaded
                        THEN [started EXCEPT ![t].pc = "done",
                                             ![t].status = "already_loaded"]
                        ELSE [started EXCEPT ![t].pc = "is_loading"]
        /\ UNCHANGED <<model, is_loading, VLLM_AVAILABLE>>
        /\ UNCHANGED <<loinc_db, icd10pcs_db, op, args, ret, ret_obj, history, llm_calls>>

\* lines 42-43: if self.is_loading: return loading_in_progress
LoadModelIsLoading ==
    \E t \in Threads :
        /\ calls[t].pc = "is_loading"
        /\ calls' = IF is_loading THEN Returns(t, "loading_in_progress")
                    ELSE [calls EXCEPT ![t].pc = "set_loading"]
        /\ UNCHANGED <<model, is_loading, VLLM_AVAILABLE>>
        /\ UNCHANGED <<loinc_db, icd10pcs_db, op, args, ret, ret_obj, history, llm_calls>>

\* lines 45-51: raise ImportError without vllm, else self.is_loading = True
LoadModelSetLoading ==
    \E t \in Threads :
        /\ calls[t].pc = "set_loading"
        /\ IF ~VLLM_AVAILABLE
           THEN /\ calls' = Returns(t, "ImportError")
                /\ UNCHANGED is_loading
           ELSE /\ calls' = [calls EXCEPT ![t].pc = "construct"]
                /\ is_loading' = TRUE
        /\ UNCHANGED <<model, VLLM_AVAILABLE>>
        /\ UNCHANGED <<loinc_db, icd10pcs_db, op, args, ret, ret_obj, history, llm_calls>>

\* lines 52-74: self.model = LLM(...), which builds the model or raises
LoadModelConstruct ==
    \E t \in Threads :
        /\ calls[t].pc = "construct"
        /\ \E built \in BOOLEAN :
               IF built
               THEN /\ model' = "LLM"
                    /\ calls' = [calls EXCEPT ![t].pc = "finally", ![t].status = "loaded"]
               ELSE /\ UNCHANGED model
                    /\ calls' = [calls EXCEPT ![t].pc = "except"]
        /\ UNCHANGED <<is_loading, VLLM_AVAILABLE>>
        /\ UNCHANGED <<loinc_db, icd10pcs_db, op, args, ret, ret_obj, history, llm_calls>>

\* lines 76-79: except: self.model = None; raise
LoadModelExcept ==
    \E t \in Threads :
        /\ calls[t].pc = "except"
        /\ model' = None
        /\ calls' = [calls EXCEPT ![t].pc = "finally", ![t].status = "raised"]
        /\ UNCHANGED <<is_loading, VLLM_AVAILABLE>>
        /\ UNCHANGED <<loinc_db, icd10pcs_db, op, args, ret, ret_obj, history, llm_calls>>

\* lines 80-81: finally: self.is_loading = False, and the call returns or
\* raises
LoadModelFinally ==
    \E t \in Threads :
        /\ calls[t].pc = "finally"
        /\ is_loading' = FALSE
        /\ calls' = [calls EXCEPT ![t].pc = "done"]
        /\ UNCHANGED <<model, VLLM_AVAILABLE>>
        /\ UNCHANGED <<loinc_db, icd10pcs_db, op, args, ret, ret_obj, history, llm_calls>>

EngineNext ==
    \/ LoadModelIsLoaded
    \/ LoadModelIsLoading
    \/ LoadModelSetLoading
    \/ LoadModelConstruct
    \/ LoadModelExcept
    \/ LoadModelFinally

EngineSpec == EngineInit /\ [][EngineNext]_vars

(*************************************************************************)
(* Vocabulary of the properties                                          *)
(*************************************************************************)
MapOps == {"map_study_to_loinc", "map_study_to_icd10pcs"}

\* A map_study_* call has returned a MappingResult.
MapReturned == op \in MapOps /\ ~Raised(ret)

\* The key the arguments of a find_*_code call spell.
ArgsKey == <<args.body_part, args.modality, args.laterality, args.contrast>>

\* What the parser yields for the study in args.
Parsed == parse_study_description(args.study_desc, args.chinese_desc,
                                  args.modality, args.contrast)

\* The code table and the lookup of the mapper that ran.
TableOfOp == IF op \in {"map_study_to_loinc", "find_loinc_code"}
             THEN LOINC_DATABASE ELSE ICD10PCS_DATABASE

FindOfOp(body_part, modality, laterality, contrast) ==
    IF op \in {"map_study_to_loinc", "find_loinc_code"}
    THEN find_loinc_code(body_part, modality, laterality, contrast)
    ELSE find_icd10pcs_code(body_part, modality, laterality, contrast)

SystemOfOp == IF op = "map_study_to_loinc" THEN "LOINC" ELSE "ICD-10-PCS"

\* The code field of the MappingResult in ret.
CodeOf(result) == IF op = "map_study_to_loinc" THEN result.loinc_code
                  ELSE result.icd10pcs_code

\* The positions of the filtered body parts of ret that find_*_code resolves
\* with the result's primary modality, laterality and contrast.
Resolving ==
    {i \in DOMAIN ret.body_parts :
        FindOfOp(ret.body_parts[i], ret.primary_modality, ret.laterality,
                 ret.contrast) # NoDict}

\* The <<body_part, record>> candidates, in the order of the body parts.
RECURSIVE CandidatesFrom(_)
CandidatesFrom(i) ==
    IF i > Len(ret.body_parts) THEN << >>
    ELSE (IF i \in Resolving
          THEN <<<<ret.body_parts[i],
                   FindOfOp(ret.body_parts[i], ret.primary_modality,
                            ret.laterality, ret.contrast)>>>>
          ELSE << >>) \o CandidatesFrom(i + 1)

\* A documented scenario: the named mapper ran on a study of modality m,
\* contrast N and no combined modality whose description parses to the one
\* body part b with laterality l.
Scenario(mapper, m, b, l) ==
    /\ op = mapper
    /\ ~Raised(ret)
    /\ args.modality = m
    /\ args.contrast = "N"
    /\ args.combine_modality = ""
    /\ Parsed.body_parts = <<b>>
    /\ Parsed.laterality = l

(*************************************************************************)
(* Properties                                                            *)
(*************************************************************************)

\* C1: for every key (body part, modality, laterality, contrast flag) of a
\* code table, the mapper's find_*_code called with exactly those four
\* values returns a record equal to the one the table stores at that key.
C1_FindReturnsStoredRecord ==
    /\ (op = "find_loinc_code" /\ ArgsKey \in DOMAIN LOINC_DATABASE)
           => ret = LOINC_DATABASE[ArgsKey]
    /\ (op = "find_icd10pcs_code" /\ ArgsKey \in DOMAIN ICD10PCS_DATABASE)
           => ret = ICD10PCS_DATABASE[ArgsKey]

\* C2: a study whose description parses to exactly one body part b and
\* laterality l, with declared modality m, no combined modality and contrast
\* c in {Y, N} such that (b, m, l, c) is a key of the mapper's table, maps
\* with confidence High to the code stored at (b, m, l, c).
C2_ExactKeyStudyMapsHigh ==
    LET key == <<Parsed.body_parts[1], args.modality, Parsed.laterality, args.contrast>>
    IN  ( /\ op \in MapOps
          /\ args.combine_modality = ""
          /\ args.contrast \in {"Y", "N"}
          /\ Len(Parsed.body_parts) = 1
          /\ key \in DOMAIN TableOfOp )
        => /\ ~Raised(ret)
           /\ ret.mapping_confidence = "High"
           /\ CodeOf(ret) = TableOfOp[key].code

\* C3: with contrast N and no combined modality, CR + Chest maps to LOINC
\* 36643-5, CT + Brain to LOINC 24558-9 and ICD-10-PCS B020ZZZ, MR +
\* Knee/Left to LOINC 24875-7, and US + Kidney/Bilateral to LOINC 24642-1 and
\* ICD-10-PCS BT45ZZZ.
C3_DocumentedScenarios ==
    /\ Scenario("map_study_to_loinc", "CR", "Chest", None) => ret.loinc_code = "36643-5"
    /\ Scenario("map_study_to_loinc", "CT", "Brain", None) => ret.loinc_code = "24558-9"
    /\ Scenario("map_study_to_icd10pcs", "CT", "Brain", None) => ret.icd10pcs_code = "B020ZZZ"
    /\ Scenario("map_study_to_loinc", "MR", "Knee", "Left") => ret.loinc_code = "24875-7"
    /\ Scenario("map_study_to_loinc", "US", "Kidney", "Bilateral") => ret.loinc_code = "24642-1"
    /\ Scenario("map_study_to_icd10pcs", "US", "Kidney", "Bilateral")
           => ret.icd10pcs_code = "BT45ZZZ"

C3_Witness ==
    /\ Scenario("map_study_to_loinc", "MR", "Knee", "Left")
    /\ args.study_desc = "Lt knee"
    /\ ret.loinc_code = "24875-7"

\* C4: in every MappingResult has_issues is true if and only if the issues
\* list is non-empty.
C4_HasIssuesIffIssues ==
    MapReturned => (ret.has_issues <=> ret.issues # << >>)

\* C5: mapping_confidence is High if and only if find_*_code returned a
\* record for at least one filtered body part, and then the code of the
\* result is the code of the candidate select_best chooses among them.
C5_HighIffSomeCandidate ==
    MapReturned =>
        /\ (ret.mapping_confidence = "High" <=> Resolving # {})
        /\ ret.mapping_confidence = "High" =>
              LET candidates == CandidatesFrom(1)
                  best == select_best(candidates)
              IN  /\ InList(best, candidates)
                  /\ CodeOf(ret) = best[2].code

C5_Witness ==
    /\ MapReturned
    /\ ret.mapping_confidence = "High"
    /\ Cardinality(Resolving) = 1
    /\ Len(ret.body_parts) = 2

\* C6: mapping_confidence is None if and only if the code field of the
\* result is null.
C6_NoneIffNoCode ==
    MapReturned => (ret.mapping_confidence = "None" <=> CodeOf(ret) = None)

C6_Witness ==
    /\ op = "map_study_to_loinc"
    /\ ~Raised(ret)
    /\ ret.mapping_confidence = "None"
    /\ ret.loinc_code = None
    /\ ret.body_parts # << >>

\* C7: only the LOINC mapper returns confidence Low, and only when no
\* filtered body part resolved and the normalized primary modality has a
\* generic pattern; the code is then that pattern and the generic-code issue
\* is recorded.  The ICD-10-PCS mapper returns None when no body part resolves.
C7_LowOnlyGenericFallback ==
    /\ (op = "map_study_to_loinc" /\ ~Raised(ret) /\ ret.mapping_confidence = "Low")
           => LET method == loinc_normalize_modality(ret.primary_modality)
              IN  /\ Resolving = {}
                  /\ method \in DOMAIN GENERIC_LOINC_PATTERNS
                  /\ ret.loinc_code = GENERIC_LOINC_PATTERNS[method]
                  /\ InList("Using generic LOINC code - specific code not found",
                            ret.issues)
    /\ (op = "map_study_to_icd10pcs" /\ ~Raised(ret))
           => /\ ret.mapping_confidence # "Low"
              /\ Resolving = {} => ret.mapping_confidence = "None"

C7_Witness ==
    /\ op = "map_study_to_loinc"
    /\ ~Raised(ret)
    /\ ret.mapping_confidence = "Low"
    /\ ret.body_parts # << >>

\* C8: map_study_* returns a result for every study record, without raising,
\* and its mapping_confidence is High, Low or None, never Unknown.
C8_ReturnsClassifiedResult ==
    op \in MapOps =>
        /\ ~Raised(ret)
        /\ ret.mapping_confidence \in {"High", "Low", "None"}

C8_Witness ==
    /\ op = "map_study_to_icd10pcs"
    /\ args.study_desc = ""
    /\ args.modality = "PT"
    /\ ~Raised(ret)
    /\ ret.mapping_confidence = "None"

\* C9: when find_*_code reaches both a contrast and a non-contrast entry for
\* a body part and modality, contrast N+Y resolves to the contrast entry and
\* contrast "" to the non-contrast entry; CT + Abdomen with contrast N+Y maps
\* with confidence High to the code of the (Abdomen, CT, none, Y) entry and
\* carries the both-contrast-and-non-contrast issue.
C9_ContrastPreference ==
    /\ op \in {"find_loinc_code", "find_icd10pcs_code"} =>
          LET with_contrast == FindOfOp(args.body_part, args.modality, args.laterality, "Y")
              without_contrast == FindOfOp(args.body_part, args.modality, args.laterality, "N")
          IN  (with_contrast # NoDict /\ without_contrast # NoDict) =>
                  /\ args.contrast = "N+Y" => ret = with_contrast
                  /\ args.contrast = "" => ret = without_contrast
    /\ ( /\ op \in MapOps
         /\ args.modality = "CT"
         /\ args.combine_modality = ""
         /\ args.contrast = "N+Y"
         /\ Parsed.body_parts = <<"Abdomen">>
         /\ Parsed.laterality = None )
       => /\ ~Raised(ret)
          /\ ret.mapping_confidence = "High"
          /\ CodeOf(ret) = TableOfOp[<<"Abdomen", "CT", None, "Y">>].code
          /\ op = "map_study_to_loinc" => ret.loinc_code = "79101-4"
          /\ InList("Both contrast and non-contrast - " \o SystemOfOp
                        \o " code may need separate entries", ret.issues)

C9_Witness ==
    /\ op = "map_study_to_loinc"
    /\ args.modality = "CT"
    /\ args.study_desc = "Abdomen"
    /\ args.combine_modality = ""
    /\ args.contrast = "N+Y"
    /\ ~Raised(ret)
    /\ ret.loinc_code = "79101-4"

\* C10: when two or more filtered body parts resolve, the result carries the
\* one code select_best chooses, mapping_confidence High, has_issues true
\* and the issue "Multiple <system> codes possible"; when exactly one
\* resolves, that issue is absent.
C10_Ambiguity ==
    MapReturned =>
        LET multiple == "Multiple " \o SystemOfOp \o " codes possible"
        IN  /\ Cardinality(Resolving) >= 2 =>
                  /\ CodeOf(ret) = select_best(CandidatesFrom(1))[2].code
                  /\ CodeOf(ret) # None
                  /\ ret.mapping_confidence = "High"
                  /\ ret.has_issues
                  /\ InList(multiple, ret.issues)
            /\ Cardinality(Resolving) = 1 => ~InList(multiple, ret.issues)

C10_Witness ==
    /\ MapReturned
    /\ Cardinality(Resolving) >= 2

\* C11: whenever the filtered body_parts of a MappingResult is empty,
\* has_issues is true, issues contains "No body part identified" and
\* mapping_confidence is not High.
C11_EmptinessBoundary ==
    (MapReturned /\ ret.body_parts = << >>)
        => /\ ret.has_issues
           /\ InList("No body part identified", ret.issues)
           /\ ret.mapping_confidence # "High"

C11_Witness ==
    /\ op = "map_study_to_loinc"
    /\ args.study_desc = ""
    /\ args.chinese_desc = ""
    /\ args.modality = "CT"
    /\ ret.body_parts = << >>
    /\ ret.mapping_confidence = "Low"
    /\ ret.has_issues

\* C12: in any sequence of calls on one mapper instance, two map_study_*
\* calls with identical arguments return equal results, whatever was called
\* in between.
C12_Determinism ==
    \A i, j \in DOMAIN history :
        (/\ history[i].op \in MapOps
         /\ history[j].op = history[i].op
         /\ history[j].args = history[i].args)
            => history[j].ret = history[i].ret

C12_Witness ==
    \E i \in DOMAIN history :
        /\ i + 3 \in DOMAIN history
        /\ history[i].op = "map_study_to_icd10pcs"
        /\ history[i].ret.mapping_confidence = "High"
        /\ history[i + 1].op = "find_icd10pcs_code"
        /\ history[i + 1].ret # NoDict
        /\ history[i + 1].ret.code = history[i].ret.icd10pcs_code
        /\ history[i + 2].op = "caller_overwrites"
        /\ history[i + 3].op = history[i].op
        /\ history[i + 3].args = history[i].args
        /\ history[i + 3].ret = history[i].ret

\* C13: no sequence of find_*_code, map_study_* and map_batch calls changes a
\* code table, and a record find_*_code returned is a copy: after the caller
\* has overwritten a field of it, find_*_code with the same arguments returns
\* the same record as before.
C13_TablesUnchanged ==
    /\ loinc_db = LOINC_DATABASE
    /\ icd10pcs_db = ICD10PCS_DATABASE
    /\ \A i, j \in DOMAIN history :
           (/\ history[i].op \in FindOps
            /\ history[j].op = history[i].op
            /\ history[j].args = history[i].args)
               => history[j].ret = history[i].ret

C13_Witness ==
    \E i \in DOMAIN history :
        /\ i + 2 \in DOMAIN history
        /\ history[i].op = "find_loinc_code"
        /\ history[i].ret # NoDict
        /\ history[i + 1].op = "caller_overwrites"
        /\ history[i + 1].ret # history[i].ret
        /\ history[i + 2].op = history[i].op
        /\ history[i + 2].args = history[i].args
        /\ history[i + 2].ret = history[i].ret
        /\ loinc_db = LOINC_DATABASE

\* C15: map_batch returns a list as long as its input whose i-th element is
\* the result of map_study_* on the i-th study alone.
C15_BatchIsPointwise ==
    (op \in {"loinc_map_batch", "icd10pcs_map_batch"})
        => /\ Len(ret) = Len(args.studies)
           /\ \A i \in 1..Len(args.studies) :
                  ret[i] = IF op = "loinc_map_batch"
                           THEN loinc_map_study_dict(args.studies[i])
                           ELSE icd10pcs_map_study_dict(args.studies[i])

C15_Witness ==
    /\ op = "loinc_map_batch"
    /\ Len(args.studies) = 2
    /\ Len(ret) = 2
    /\ Get(args.studies[1], "Study Description", "") = "Chest"
    /\ DOMAIN args.studies[2] = {"value_code", "modality", "Study Description"}
    /\ ret[1].loinc_code = "36643-5"
    /\ ret[1].value_code = "RAD001"
    /\ ret[2].loinc_code = "24642-1"
    /\ ret[2].value_code = "RAD003"
    /\ ret[2].contrast = ""

\* C14: normalize_modality looks the upper-cased code up in the mapper's
\* table; for a code the table does not know the LOINC mapper returns the
\* upper-cased input and the ICD-10-PCS mapper returns "", and for an empty
\* input both return "".
C14_NormalizeModality ==
    /\ (op = "loinc_normalize_modality")
           => ret = IF args.modality \in {"", None} THEN ""
                    ELSE IF Upper(args.modality) \in DOMAIN MODALITY_TO_METHOD
                    THEN MODALITY_TO_METHOD[Upper(args.modality)]
                    ELSE Upper(args.modality)
    /\ (op = "icd10pcs_normalize_modality")
           => ret = IF args.modality \in {"", None} THEN ""
                    ELSE IF Upper(args.modality) \in DOMAIN MODALITY_TO_ROOT_TYPE
                    THEN MODALITY_TO_ROOT_TYPE[Upper(args.modality)]
                    ELSE ""

C14_Witness ==
    /\ op = "icd10pcs_normalize_modality"
    /\ args.modality = "pt"
    /\ ret = ""
    /\ loinc_normalize_modality(args.modality) = "PT"

\* C17: identify_primary_modality returns "" for an empty list, else the
\* first entry of the priority order CT, MR, US, XA, RF, CR, BMD, OT that
\* the list contains, and the first list element if the list contains none.
C17_PrimaryModality ==
    (op = "identify_primary_modality")
        => LET list == args.modality_list
               known == {i \in DOMAIN PRIORITY_ORDER :
                            \E j \in DOMAIN list : list[j] = PRIORITY_ORDER[i]}
           IN  /\ PRIORITY_ORDER = <<"CT", "MR", "US", "XA", "RF", "CR", "BMD", "OT">>
               /\ (list = << >>) => ret = ""
               /\ (list # << >> /\ known # {})
                      => \E i \in known : /\ ret = PRIORITY_ORDER[i]
                                          /\ \A k \in known : i <= k
               /\ (list # << >> /\ known = {}) => ret = list[1]

C17_Witness ==
    /\ op = "identify_primary_modality"
    /\ args.modality_list = <<"CR", "MR">>
    /\ ret = "MR"

\* C18: the body-part list of extract_body_parts never holds a name twice,
\* the names found in the English text come first and the names found only
\* in the Chinese text follow them; the filtered body_parts of a mapping
\* result never holds a name twice either.
C18_BodyPartsNoDuplicates ==
    /\ (op = "extract_body_parts")
           => LET english == extract_body_parts(args.text, "")
              IN  /\ \A i, j \in DOMAIN ret : ret[i] = ret[j] => i = j
                  /\ Len(english) <= Len(ret)
                  /\ SubSeq(ret, 1, Len(english)) = english
                  /\ \A i \in (Len(english) + 1)..Len(ret) :
                         /\ ~InList(ret[i], english)
                         /\ InList(ret[i], extract_body_parts("", args.chinese_text))
                  /\ \A i \in DOMAIN ret :
                         \/ InList(ret[i], english)
                         \/ InList(ret[i], extract_body_parts("", args.chinese_text))
    /\ MapReturned
           => \A i, j \in DOMAIN ret.body_parts :
                  ret.body_parts[i] = ret.body_parts[j] => i = j

C18_Witness ==
    /\ op = "extract_body_parts"
    /\ args.text = "Chest thorax"
    /\ args.chinese_text = "xigaixiongbu"
    /\ extract_body_parts(args.text, "") = <<"Chest">>
    /\ ret = <<"Chest", "Knee">>

\* C20: find_*_code returns the record at the first key present in the
\* table, or nothing, where the keys are probed contrast flag by contrast
\* flag ([Y] for "Y", [N] for "N", [Y, N] for "N+Y", [N, Y] otherwise) and,
\* for each flag, the key with the known laterality before the key without
\* laterality.  So contrast "Y" never returns a record stored under flag N
\* (and "N" none stored under Y), and with contrast "" a no-laterality N
\* entry wins over a laterality-specific Y entry.
C20_ProbeOrder ==
    (op \in FindOps)
        => LET db == IF op = "find_loinc_code" THEN loinc_db ELSE icd10pcs_db
               modality == IF op = "find_loinc_code"
                           THEN loinc_normalize_modality(args.modality)
                           ELSE args.modality
               flags == IF args.contrast = "Y" THEN <<"Y">>
                        ELSE IF args.contrast = "N" THEN <<"N">>
                        ELSE IF args.contrast = "N+Y" THEN <<"Y", "N">>
                        ELSE <<"N", "Y">>
               known == args.laterality \notin {"", None}
               Key(laterality, flag) == <<args.body_part, modality, laterality, flag>>
               keys == IF known
                       THEN [n \in 1..(2 * Len(flags)) |->
                                IF n % 2 = 1 THEN Key(args.laterality, flags[(n + 1) \div 2])
                                ELSE Key(None, flags[n \div 2])]
                       ELSE [n \in 1..Len(flags) |-> Key(None, flags[n])]
               present == {n \in DOMAIN keys : keys[n] \in DOMAIN db}
               StoredUnder(flag) == {db[k] : k \in {x \in DOMAIN db : x[4] = flag}}
           IN  /\ (present = {}) => ret = NoDict
               /\ (present # {})
                      => \E n \in present : /\ \A k \in present : n <= k
                                            /\ ret = db[keys[n]]
               /\ (args.contrast = "Y") => ret \notin StoredUnder("N")
               /\ (args.contrast = "N") => ret \notin StoredUnder("Y")
               /\ (/\ args.contrast = ""
                   /\ Key(None, "N") \in DOMAIN db
                   /\ known => Key(args.laterality, "N") \notin DOMAIN db)
                      => ret = db[Key(None, "N")]

C20_Witness ==
    /\ op = "find_loinc_code"
    /\ args.contrast = ""
    /\ args.laterality = "Left"
    /\ DOMAIN loinc_db = {<<"Knee", "CT", None, "N">>, <<"Knee", "CT", "Left", "Y">>,
                          <<"Knee", "CT", None, "Y">>}
    /\ ret = loinc_db[<<"Knee", "CT", None, "N">>]

\* C19: only the hybrid mapper invokes the LLM mapper, at most once per code
\* system and only after it has the rule-based result of the study, and it
\* does so exactly when the fallback is enabled (use_llm_fallback is set and
\* the LLM mapper was constructed) and the rank of the rule-based confidence
\* is below the rank of the threshold (High 3, Medium 2, Low 1, None 0,
\* Unknown 0).  So a High result never leads to an invocation, and under
\* threshold Low only a None result does.  The rule-based mappers never
\* invoke it.
C19_FallbackInvocation ==
    LET Rank(level) == IF level = "High" THEN 3
                       ELSE IF level = "Medium" THEN 2
                       ELSE IF level = "Low" THEN 1
                       ELSE 0
        LlmMethod(rule_op) == IF rule_op = "map_study_to_loinc" THEN "map_to_loinc"
                              ELSE "map_to_icd10pcs"
        enabled == args.use_llm_fallback /\ args.llm_constructs
        rule_calls == {n \in DOMAIN history : history[n].op \in MapOps}
    IN  /\ (op \notin {"init", "hybrid_map_to_loinc", "hybrid_map_to_icd10pcs",
                       "hybrid_map_dual"})
               => llm_calls = << >>
        /\ (op \in {"hybrid_map_to_loinc", "hybrid_map_to_icd10pcs", "hybrid_map_dual"})
               => /\ \A n \in rule_calls :
                         LET rule == history[n].ret
                             invocations ==
                                 {k \in DOMAIN llm_calls :
                                     llm_calls[k].method = LlmMethod(history[n].op)}
                         IN  /\ Cardinality(invocations) <= 1
                             /\ (invocations # {})
                                    <=> (/\ enabled
                                         /\ Rank(rule.mapping_confidence)
                                                < Rank(args.confidence_threshold))
                             /\ (rule.mapping_confidence = "High") => invocations = {}
                             /\ (args.confidence_threshold = "Low" /\ invocations # {})
                                    => rule.mapping_confidence = "None"
                             /\ \A k \in invocations :
                                    /\ llm_calls[k].rule_confidence = rule.mapping_confidence
                                    /\ llm_calls[k].study_description = args.study.study_desc
                                    /\ llm_calls[k].modality = args.study.modality
                                    /\ llm_calls[k].contrast = args.study.contrast
                  /\ \A k \in DOMAIN llm_calls :
                         \E n \in rule_calls : llm_calls[k].method = LlmMethod(history[n].op)

C19_Witness ==
    /\ op = "hybrid_map_to_loinc"
    /\ args.use_llm_fallback
    /\ args.confidence_threshold = "Low"
    /\ history[1].op = "map_study_to_loinc"
    /\ history[1].ret.mapping_confidence = "None"
    /\ Len(llm_calls) = 1
    /\ llm_calls[1].method = "map_to_loinc"
    /\ ~Raised(ret)
    /\ ret.llm_used
    /\ ret.mapping_method = "llm"
    /\ ret.loinc_code = "24725-4"
    /\ ret.mapping_confidence = "High"

\* C16: the merged record of a pair of per-system results has has_issues
\* equal to the OR of the two has_issues flags, and its issues are the
\* union without duplicates of the issues of both results, each prefixed
\* with the label of its system ("LOINC: ", "ICD-10-PCS: "); this for the
\* merge of HybridMapper.map_dual and for the rows of
\* create_dual_output_dataframe.
C16_MergedIssues ==
    LET Prefixed(loinc_result, icd10pcs_result) ==
            {"LOINC: " \o issue : issue \in SetOf(loinc_result.issues)}
                \cup {"ICD-10-PCS: " \o issue : issue \in SetOf(icd10pcs_result.issues)}
        Listed(text) == IF text = "" THEN << >>
                        ELSE LET pieces == Split(text, ";")
                             IN  [k \in DOMAIN pieces |-> Strip(pieces[k])]
    IN  /\ (op = "hybrid_map_dual" /\ ~Raised(ret))
               => LET loinc_result == history[2].ret
                      icd10pcs_result == history[4].ret
                  IN  /\ ret.has_issues
                             <=> (loinc_result.has_issues \/ icd10pcs_result.has_issues)
                      /\ ret.issues = Prefixed(loinc_result, icd10pcs_result)
        /\ (op = "create_dual_output_dataframe")
               => /\ Len(ret) = Len(args.studies)
                  /\ \A n \in DOMAIN ret :
                         LET loinc_result == history[1].ret[n]
                             icd10pcs_result == history[2].ret[n]
                             listed == Listed(ret[n]["Issues"])
                         IN  /\ (ret[n]["Has Issues"] = "Yes")
                                    <=> (loinc_result.has_issues
                                             \/ icd10pcs_result.has_issues)
                             /\ ret[n]["Has Issues"] \in {"Yes", "No"}
                             /\ SetOf(listed) = Prefixed(loinc_result, icd10pcs_result)
                             /\ \A j, k \in DOMAIN listed : listed[j] = listed[k] => j = k

\* C21: select_best on a non-empty candidate list returns a member of the
\* list: the sole candidate if there is one; otherwise, for the first keyword
\* of the list Cervical spine, Thoracic spine, Lumbar spine, Lumbosacral
\* spine, Coronary artery, Carotid artery, Renal artery, Left, Right,
\* Bilateral that is a case-insensitive substring of some candidate's body
\* part, the first such candidate in list order; otherwise the candidate with
\* the longest body part, the earliest among equal lengths.
C21_SelectBest ==
    op = "select_best" =>
        LET codes == args.codes
            keywords == <<"Cervical spine", "Thoracic spine", "Lumbar spine",
                          "Lumbosacral spine", "Coronary artery", "Carotid artery",
                          "Renal artery", "Left", "Right", "Bilateral">>
            Hit(k, i) == Contains(Lower(keywords[k]), Lower(codes[i][1]))
        IN  /\ \E i \in DOMAIN codes : ret = codes[i]
            /\ Len(codes) = 1 => ret = codes[1]
            /\ Len(codes) > 1 =>
                  \/ \E k \in DOMAIN keywords, i \in DOMAIN codes :
                        /\ Hit(k, i)
                        /\ ret = codes[i]
                        /\ \A j \in 1..(i - 1) : ~Hit(k, j)
                        /\ \A k2 \in 1..(k - 1), j \in DOMAIN codes : ~Hit(k2, j)
                  \/ /\ \A k \in DOMAIN keywords, j \in DOMAIN codes : ~Hit(k, j)
                     /\ \E i \in DOMAIN codes :
                           /\ ret = codes[i]
                           /\ \A j \in DOMAIN codes :
                                 Len(codes[j][1]) <= Len(codes[i][1])
                           /\ \A j \in 1..(i - 1) :
                                 Len(codes[j][1]) < Len(codes[i][1])

\* A generic keyword matches the first candidate and a spine keyword the
\* second: the second is chosen.
C21_Witness ==
    /\ op = "select_best"
    /\ Len(args.codes) = 2
    /\ args.codes[1][1] = "Left knee"
    /\ args.codes[2][1] = "LUMBAR SPINE"
    /\ ret = args.codes[2]

\* C22: filter_body_parts returns the input list without the excluded names
\* Face and Bone, in the input's order, except that a list of excluded names
\* only is returned unchanged; the output is empty only if the input is, and
\* holds an excluded name only if the input held nothing else.
C22_FilterBodyParts ==
    op = "filter_body_parts" =>
        LET input == args.body_parts
            Excluded(name) == name \in {"Face", "Bone"}
            kept == SelectSeq(input, LAMBDA name : ~Excluded(name))
            all_excluded == \A i \in DOMAIN input : Excluded(input[i])
        IN  /\ ret = IF all_excluded THEN input ELSE kept
            /\ ret = << >> => input = << >>
            /\ (\E i \in DOMAIN ret : Excluded(ret[i])) => all_excluded

C22_Witness ==
    /\ op = "filter_body_parts"
    /\ args.body_parts = <<"Face", "Bone">>
    /\ ret = <<"Face", "Bone">>

\* C23: map_study_* resolves primary_modality as identify_primary_modality of
\* the parsed combine_modality list when combine_modality is non-empty
\* (otherwise of the one-element list holding the declared modality), and
\* falls back to the declared modality whenever that yields the empty string;
\* so primary_modality is empty only if the declared modality is, and a
\* non-empty combined list overrides a declared modality that is not in it.
C23_PrimaryModalityResolution ==
    MapReturned =>
        LET modality_list == IF args.combine_modality # ""
                             THEN parse_modality_list(args.combine_modality)
                             ELSE <<args.modality>>
            identified == identify_primary_modality(modality_list)
        IN  /\ ret.primary_modality = IF identified = "" THEN args.modality
                                      ELSE identified
            /\ ~Truthy(ret.primary_modality) => ~Truthy(args.modality)
            /\ (args.combine_modality # "" /\ identified # "")
                   => /\ InList(ret.primary_modality, modality_list)
                      /\ ~InList(args.modality, modality_list)
                             => ret.primary_modality # args.modality

\* The combined modality holds commas only: the declared modality is used.
C23_Witness ==
    /\ MapReturned
    /\ args.combine_modality = ","
    /\ args.modality = "CR"
    /\ ret.primary_modality = "CR"

\* C24: extract_laterality returns Bilateral whenever the English text holds
\* one of the whole-word keywords bilateral, bilat, bil, both, whatever
\* Left/Right keyword either text holds; otherwise the laterality of the
\* first English laterality keyword, in table order, that matches; the
\* Chinese keywords are consulted only when the English text yielded no
\* laterality, and the result is null when nothing matches.
C24_ExtractLaterality ==
    op = "extract_laterality" =>
        LET text == IF args.text = None THEN "" ELSE Lower(args.text)
            chinese == IF args.chinese_text = None THEN "" ELSE args.chinese_text
            bilateral == \E word \in {"bilateral", "bilat", "bil", "both"} :
                             WordSearch(word, text)
            english == {i \in DOMAIN LATERALITY_ITEMS :
                           WordSearch(LATERALITY_ITEMS[i][1], text)}
            chinese_hits == {i \in DOMAIN CHINESE_LATERALITY_ITEMS :
                                Contains(CHINESE_LATERALITY_ITEMS[i][1], chinese)}
        IN  ret = IF bilateral THEN "Bilateral"
                  ELSE IF english # {} THEN LATERALITY_ITEMS[Min(english)][2]
                  ELSE IF chinese_hits # {}
                       THEN CHINESE_LATERALITY_ITEMS[Min(chinese_hits)][2]
                  ELSE None

\* A bilateral keyword next to an English and a Chinese Left keyword.
C24_Witness ==
    /\ op = "extract_laterality"
    /\ args.text = "both Lt knee"
    /\ args.chinese_text = "zuoxigai"
    /\ ret = "Bilateral"

\* C25: the issues of a MappingResult hold an issue beginning with "Multiple
\* modalities - used primary modality" if and only if combine_modality holds
\* a comma, and one beginning with "Both contrast and non-contrast" if and
\* only if the raw contrast is "N+Y", whatever the code and the confidence.
C25_ValidationIssues ==
    MapReturned =>
        LET StartsWith(s, prefix) ==
                Len(s) >= Len(prefix) /\ SubSeq(s, 1, Len(prefix)) = prefix
            Has(prefix) ==
                \E i \in DOMAIN ret.issues : StartsWith(ret.issues[i], prefix)
        IN  /\ Has("Multiple modalities - used primary modality")
                   <=> Contains(",", args.combine_modality)
            /\ Has("Both contrast and non-contrast") <=> args.contrast = "N+Y"

\* Both issues on a result with a specific code and confidence High.
C25_Witness ==
    /\ MapReturned
    /\ ret.mapping_confidence = "High"
    /\ args.combine_modality = "MR,PT"
    /\ args.contrast = "N+Y"
    /\ Len(ret.issues) = 2

\* C26: the contrast detected from the description never influences
\* map_study_*: the contrast field of the MappingResult and the contrast
\* order of the lookup are those of the supplied raw contrast, so a study
\* with empty supplied contrast is looked up in the order N, Y and reports
\* contrast "" even when its description names a contrast; the detected
\* value appears only in the parser's own result.
C26_DetectedContrastUnused ==
    /\ MapReturned =>
          LET m == IF op = "map_study_to_loinc"
                   THEN loinc_normalize_modality(ret.primary_modality)
                   ELSE ret.primary_modality
              KeysOf(flag) ==
                  (IF Truthy(ret.laterality)
                   THEN <<<<ret.body_parts[1], m, ret.laterality, flag>>>>
                   ELSE << >>) \o <<<<ret.body_parts[1], m, None, flag>>>>
              order == KeysOf("N") \o KeysOf("Y")
              present == {i \in DOMAIN order : order[i] \in DOMAIN TableOfOp}
          IN  /\ ret.contrast = args.contrast
              /\ (args.contrast = "" /\ Len(ret.body_parts) = 1) =>
                    IF present # {}
                    THEN /\ ret.mapping_confidence = "High"
                         /\ CodeOf(ret) = TableOfOp[order[Min(present)]].code
                    ELSE ret.mapping_confidence # "High"
    /\ op = "parse_study_description" =>
          LET detected == detect_contrast_from_description(args.study_desc,
                                                           args.chinese_desc)
          IN  ret.contrast = IF args.contrast = "" /\ detected # None
                             THEN detected ELSE args.contrast

\* "Chest with contrast" with empty supplied contrast: the parser detects Y,
\* the mapper reports "" and the code of the N entry.
C26_Witness ==
    /\ op = "map_study_to_loinc"
    /\ args.study_desc = "Chest with contrast"
    /\ args.contrast = ""
    /\ Parsed.contrast = "Y"
    /\ ret.contrast = ""
    /\ ret.loinc_code = LOINC_DATABASE[<<"Chest", "CT", None, "N">>].code
    /\ ret.loinc_code # LOINC_DATABASE[<<"Chest", "CT", None, "Y">>].code

\* C27: the ICD-10-PCS mapper builds its lookup key from the primary modality
\* string as it is: the root type normalize_modality computes is not in the
\* key, and with empty combine_modality the declared modality is not
\* upper-cased.  So a study with a lower-case declared modality ("ct") gets
\* confidence None from the ICD-10-PCS mapper while the LOINC mapper, which
\* keys on the upper-casing normalized method, can return High.
C27_Icd10pcsKeyVerbatim ==
    (op = "map_study_to_icd10pcs" /\ ~Raised(ret)) =>
        LET flags == IF args.contrast \in {"Y", "N"} THEN {args.contrast}
                     ELSE {"Y", "N"}
            lateralities == IF Truthy(ret.laterality) THEN {ret.laterality, None}
                            ELSE {None}
            key_present ==
                \E i \in DOMAIN ret.body_parts, l \in lateralities, flag \in flags :
                    <<ret.body_parts[i], ret.primary_modality, l, flag>>
                        \in DOMAIN ICD10PCS_DATABASE
        IN  /\ ret.mapping_confidence = "High" <=> key_present
            /\ args.combine_modality = "" => ret.primary_modality = args.modality
            /\ ( /\ args.combine_modality = ""
                 /\ Truthy(args.modality)
                 /\ args.modality # Upper(args.modality) )
                   => /\ ret.mapping_confidence = "None"
                      /\ ret.icd10pcs_code = None

\* CT Chest declared as "ct": None from the ICD-10-PCS mapper, High from the
\* LOINC mapper on the same study.
C27_Witness ==
    /\ op = "map_study_to_icd10pcs"
    /\ args.modality = "ct"
    /\ args.combine_modality = ""
    /\ args.study_desc = "Chest"
    /\ args.contrast = "N"
    /\ ret.mapping_confidence = "None"
    /\ <<"Chest", "CT", None, "N">> \in DOMAIN ICD10PCS_DATABASE
    /\ map_study_to_loinc(args.value_code, args.modality, args.study_desc,
                          args.chinese_desc, args.contrast,
                          args.combine_modality).mapping_confidence = "High"

\* C28: when the hybrid mapper invokes the LLM mapper and it fails (it
\* raises, its answer cannot be parsed, the answer holds no code, or the
\* answer's confidence is "none"), the result returned keeps the code
\* fields, mapping_confidence, issues and has_issues of the rule-based
\* result, with llm_used false and mapping_method "rule-based", and no
\* exception reaches the caller.
C28_FallbackFailure ==
    LET Fails(response, code_field) ==
            \/ "raises" \in DOMAIN response
            \/ "text" \in DOMAIN response
            \/ /\ "json" \in DOMAIN response
               /\ \/ ~Truthy(Get(response.json, code_field, None))
                  \/ Get(response.json, "confidence", "absent") = "none"
        Invoked(method) == \E k \in DOMAIN llm_calls : llm_calls[k].method = method
        Kept(rule) == ("llm_used" :> FALSE) @@ ("mapping_method" :> "rule-based") @@ rule
    IN  /\ ( /\ op = "hybrid_map_to_loinc"
             /\ Invoked("map_to_loinc")
             /\ Fails(args.llm_loinc_response, "loinc_code") )
               => ret = Kept(history[1].ret)
        /\ ( /\ op = "hybrid_map_to_icd10pcs"
             /\ Invoked("map_to_icd10pcs")
             /\ Fails(args.llm_icd10pcs_response, "icd10pcs_code") )
               => ret = Kept(history[1].ret)
        /\ op = "hybrid_map_dual" =>
              \A n \in DOMAIN history :
                  /\ ( /\ history[n].op = "hybrid_map_to_loinc"
                       /\ Invoked("map_to_loinc")
                       /\ Fails(args.llm_loinc_response, "loinc_code") )
                         => history[n].ret = Kept(history[n - 1].ret)
                  /\ ( /\ history[n].op = "hybrid_map_to_icd10pcs"
                       /\ Invoked("map_to_icd10pcs")
                       /\ Fails(args.llm_icd10pcs_response, "icd10pcs_code") )
                         => history[n].ret = Kept(history[n - 1].ret)

\* The LLM call raises on a study the rules could not map.
C28_Witness ==
    /\ op = "hybrid_map_to_loinc"
    /\ Len(llm_calls) = 1
    /\ "raises" \in DOMAIN args.llm_loinc_response
    /\ history[1].ret.mapping_confidence = "None"
    /\ ret.mapping_confidence = "None"
    /\ ret.loinc_code = None
    /\ ~ret.llm_used
    /\ ret.mapping_method = "rule-based"
    /\ InList("No LOINC code found", ret.issues)

\* C29: whenever the LLM mapper's code replaces the rule-based result (the
\* hybrid mapper invoked it and its answer holds a code with a confidence
\* other than "none"), the result returned has llm_used true, its code is
\* the LLM mapper's code, its issues are the rule-based issues without the
\* "No <system> code found" message, in order, and has_issues is true if and
\* only if that list is non-empty.
C29_LlmReplacement ==
    LET Replaces(response, code_field) ==
            /\ "json" \in DOMAIN response
            /\ Truthy(Get(response.json, code_field, None))
            /\ Get(response.json, "confidence", "absent") # "none"
        Invoked(method) == \E k \in DOMAIN llm_calls : llm_calls[k].method = method
        Replaced(result, rule, response, code_field, message) ==
            /\ ~Raised(result)
            /\ result.llm_used
            /\ result[code_field] = response.json[code_field]
            /\ result.issues = SelectSeq(rule.issues, LAMBDA issue : issue # message)
            /\ result.has_issues <=> result.issues # << >>
        Loinc(result, rule) ==
            (Invoked("map_to_loinc") /\ Replaces(args.llm_loinc_response, "loinc_code"))
                => Replaced(result, rule, args.llm_loinc_response, "loinc_code",
                            "No LOINC code found")
        Icd10pcs(result, rule) ==
            ( /\ Invoked("map_to_icd10pcs")
              /\ Replaces(args.llm_icd10pcs_response, "icd10pcs_code") )
                => Replaced(result, rule, args.llm_icd10pcs_response, "icd10pcs_code",
                            "No ICD-10-PCS code found")
    IN  /\ op = "hybrid_map_to_loinc" => Loinc(ret, history[1].ret)
        /\ op = "hybrid_map_to_icd10pcs" => Icd10pcs(ret, history[1].ret)
        /\ op = "hybrid_map_dual" =>
              \A n \in DOMAIN history :
                  /\ history[n].op = "hybrid_map_to_loinc"
                         => Loinc(history[n].ret, history[n - 1].ret)
                  /\ history[n].op = "hybrid_map_to_icd10pcs"
                         => Icd10pcs(history[n].ret, history[n - 1].ret)

\* C30: on the singleton engine, under any interleaving of concurrent
\* load_model calls, at most one call constructs the model at a time: a call
\* that starts while another load is in progress returns
\* "loading_in_progress", and a call that starts after a completed load
\* returns "already_loaded"; and is_loading is false once no load_model call
\* is executing, whether the load succeeded or raised.
C30_SingleLoad ==
    LET constructing == {t \in Threads : calls[t].pc = "construct"}
        executing == {t \in Threads : calls[t].pc \notin {"idle", "done"}}
    IN  /\ Cardinality(constructing) <= 1
        /\ \A t \in Threads :
               calls[t].pc = "done" =>
                   /\ calls[t].started_during_load
                          => calls[t].status = "loading_in_progress"
                   /\ calls[t].started_after_load
                          => calls[t].status = "already_loaded"
        /\ executing = {} => ~is_loading

====
